---- MODULE Spec2Model ----
(***************************************************************************)
(* Model of the organisation-chart post-processing pipeline:               *)
(*   post-process.ts     cleanTeamName, areNamesSimilar,                    *)
(*                       chooseCanonicalName                                *)
(*   process-org-data    findLongestCommonPrefix, groupByPrefix,            *)
(*                       deduplicateSimilarKeys, processOrgData             *)
(*                                                                         *)
(* A JavaScript string is a sequence of UTF-16 code units; a code unit is   *)
(* written as a one-character TLA+ string ("A", " ") or, outside printable  *)
(* ASCII, as a name ("U+2019").  An OrgNode is a JavaScript object: it      *)
(* lives in a heap (a sequence of objects, a reference is an index) and is  *)
(* an insertion-ordered sequence of entries [k |-> key, v |-> reference].   *)
(***************************************************************************)
EXTENDS Integers, Sequences, FiniteSets, TLC

\* ------------------------------------------------------------------------
\* Code units
\* ------------------------------------------------------------------------

\* Printable ASCII, U+0020 .. U+007E, in code order (the grave accent is
\* written by name).
Ascii ==
  <<" ", "!", "\"", "#", "$", "%", "&", "'", "(", ")", "*", "+", ",", "-",
    ".", "/", "0", "1", "2", "3", "4", "5", "6", "7", "8", "9", ":", ";",
    "<", "=", ">", "?", "@", "A", "B", "C", "D", "E", "F", "G", "H", "I",
    "J", "K", "L", "M", "N", "O", "P", "Q", "R", "S", "T", "U", "V", "W",
    "X", "Y", "Z", "[", "\\", "]", "^", "_", "U+0060", "a", "b", "c", "d", "e",
    "f", "g", "h", "i", "j", "k", "l", "m", "n", "o", "p", "q", "r", "s",
    "t", "u", "v", "w", "x", "y", "z", "{", "|", "}", "~">>

\* The other code units the cleaner distinguishes, each with its code.
NonAscii ==
  << <<"U+0009", 9>>,     <<"U+007F", 127>>,   <<"U+0085", 133>>,
     <<"U+00A0", 160>>,   <<"U+2013", 8211>>,  <<"U+2014", 8212>>,
     <<"U+2018", 8216>>,  <<"U+2019", 8217>>,  <<"U+201C", 8220>>,
     <<"U+201D", 8221>>,  <<"U+2026", 8230>>,  <<"U+212A", 8490>>,
     <<"U+E000", 57344>>, <<"U+F8FF", 63743>>, <<"U+FFFD", 65533>> >>

Chars ==
  {Ascii[i] : i \in 1..Len(Ascii)} \cup {NonAscii[i][1] : i \in 1..Len(NonAscii)}

\* The UTF-16 code of a code unit.
Code ==
  [c \in Chars |->
     IF \E i \in 1..Len(Ascii) : Ascii[i] = c
       THEN 31 + (CHOOSE i \in 1..Len(Ascii) : Ascii[i] = c)
       ELSE NonAscii[CHOOSE i \in 1..Len(NonAscii) : NonAscii[i][1] = c][2]]

IsUpper(c) == Code[c] \in 65..90
IsLower(c) == Code[c] \in 97..122
IsDigit(c) == Code[c] \in 48..57

\* String.prototype.toLowerCase / toUpperCase on one code unit.  The Kelvin
\* sign U+212A is the code unit outside ASCII whose lower case is an ASCII
\* letter.
ToLower ==
  [c \in Chars |-> IF IsUpper(c) THEN Ascii[Code[c] + 32 - 31]
                   ELSE IF c = "U+212A" THEN "k" ELSE c]
ToUpper ==
  [c \in Chars |-> IF IsLower(c) THEN Ascii[Code[c] - 32 - 31] ELSE c]

\* White space in the sense of String.prototype.trim and of the regex
\* class \s.
IsSpace(c) == c \in {" ", "U+0009", "U+00A0"}

\* ------------------------------------------------------------------------
\* Strings
\* ------------------------------------------------------------------------

\* const v = ...; Rest(v): a local that is computed once and then read.
With(v, Rest(_)) == Rest(v)

toLowerCase(s) == [i \in 1..Len(s) |-> ToLower[s[i]]]
toUpperCase(s) == [i \in 1..Len(s) |-> ToUpper[s[i]]]

RECURSIVE TrimStart(_)
TrimStart(s) ==
  IF s # <<>> /\ IsSpace(Head(s)) THEN TrimStart(Tail(s)) ELSE s

RECURSIVE TrimEnd(_)
TrimEnd(s) ==
  IF s # <<>> /\ IsSpace(s[Len(s)])
    THEN TrimEnd(SubSeq(s, 1, Len(s) - 1))
    ELSE s

\* String.prototype.trim
trim(s) == TrimEnd(TrimStart(s))

\* s.substring(from, to) with 0-based indices, 0 <= from, to clamped.
substring(s, from, to) ==
  LET t == IF to > Len(s) THEN Len(s) ELSE to
  IN  IF from >= t THEN <<>> ELSE SubSeq(s, from + 1, t)

\* s.substring(from)
substringFrom(s, from) == substring(s, from, Len(s))

\* s.startsWith(p)
startsWith(s, p) == Len(p) <= Len(s) /\ SubSeq(s, 1, Len(p)) = p

\* s.includes(p)
includes(s, p) ==
  \E i \in 0..(Len(s) - Len(p)) : SubSeq(s, i + 1, i + Len(p)) = p

\* s.lastIndexOf(c) for one code unit c: 0-based index, -1 when absent.
lastIndexOf(s, c) ==
  IF \E i \in 1..Len(s) : s[i] = c
    THEN (CHOOSE i \in 1..Len(s) :
            s[i] = c /\ \A j \in (i + 1)..Len(s) : s[j] # c) - 1
    ELSE -1

\* The order of the relational operators on strings and of the default
\* Array.prototype.sort: code unit by code unit, a proper prefix first.
RECURSIVE StrLess(_, _)
StrLess(a, b) ==
  IF b = <<>> THEN FALSE
  ELSE IF a = <<>> THEN TRUE
  ELSE IF Head(a) = Head(b) THEN StrLess(Tail(a), Tail(b))
  ELSE Code[Head(a)] < Code[Head(b)]

\* ------------------------------------------------------------------------
\* post-process.ts: similarity and canonical names
\* ------------------------------------------------------------------------

\* The regex class [a-z0-9].
IsLowerAlnum(c) == IsLower(c) \/ IsDigit(c)

\* name.toLowerCase().replace(/[^a-z0-9]/g, '').trim()
normalizeForComparison(name) ==
  trim(SelectSeq(toLowerCase(name), IsLowerAlnum))

Math_min(a, b) == IF a <= b THEN a ELSE b
Math_max(a, b) == IF a >= b THEN a ELSE b

\* minLength / maxLength >= 0.7 in IEEE doubles.  For lengths below 2^50
\* the rounded quotient is at least the double 0.7 exactly when the exact
\* quotient is at least 7/10, and maxLength is positive here (two different
\* normalised forms, one inside the other).
\* The comparison with > in the place of >=.
RatioAbove70(minLength, maxLength) == 10 * minLength > 7 * maxLength

RatioAtLeast70(minLength, maxLength) == 10 * minLength >= 7 * maxLength

areNamesSimilar(name1, name2) ==
  With(normalizeForComparison(name1), LAMBDA norm1 :
  With(normalizeForComparison(name2), LAMBDA norm2 :
    IF norm1 = norm2 THEN TRUE
    ELSE IF includes(norm1, norm2) \/ includes(norm2, norm1)
      THEN RatioAtLeast70(Math_min(Len(norm1), Len(norm2)),
                          Math_max(Len(norm1), Len(norm2)))
      ELSE FALSE))

\* String.prototype.localeCompare under the root collation of the runtime:
\* the strings are compared by primary weight first (white space, then
\* punctuation, then symbols, then digits, then letters without regard to
\* case), and strings of equal primary weights by case, a lower-case letter
\* before its upper-case form.  CollationOrder lists the code units of
\* distinct primary weight in ascending order; the control and private-use
\* code units, which no cleaned label holds, are listed last.  The Kelvin
\* sign U+212A is canonically equivalent to the capital letter K and has
\* its weights: the comparison of two canonically equivalent strings is 0.
CollationOrder ==
  <<"U+0009", "U+0085", " ", "_", "-", "U+2013", "U+2014", ",", ";", ":",
    "!", "?", ".", "U+2026", "'", "U+2018", "U+2019", "\"", "U+201C",
    "U+201D", "(", ")", "[", "]", "{", "}", "@", "*", "/", "\\", "&", "#",
    "%", "U+0060", "^", "+", "<", "=", ">", "|", "~", "$",
    "0", "1", "2", "3", "4", "5", "6", "7", "8", "9",
    "a", "b", "c", "d", "e", "f", "g", "h", "i", "j", "k", "l", "m", "n",
    "o", "p", "q", "r", "s", "t", "u", "v", "w", "x", "y", "z",
    "U+007F", "U+E000", "U+F8FF", "U+FFFD">>

PrimaryWeight ==
  [c \in Chars |->
     LET f == IF c = "U+00A0" THEN " " ELSE ToLower[c]
     IN  CHOOSE i \in 1..Len(CollationOrder) : CollationOrder[i] = f]

TertiaryWeight ==
  [c \in Chars |-> IF IsUpper(c) \/ c \in {"U+00A0", "U+212A"} THEN 1 ELSE 0]

RECURSIVE WeightsLess(_, _, _)
WeightsLess(w, a, b) ==
  IF b = <<>> THEN FALSE
  ELSE IF a = <<>> THEN TRUE
  ELSE IF w[Head(a)] = w[Head(b)] THEN WeightsLess(w, Tail(a), Tail(b))
  ELSE w[Head(a)] < w[Head(b)]

\* a.localeCompare(b): negative, zero or positive.
localeCompare(a, b) ==
  IF WeightsLess(PrimaryWeight, a, b) THEN -1
  ELSE IF WeightsLess(PrimaryWeight, b, a) THEN 1
  ELSE IF WeightsLess(TertiaryWeight, a, b) THEN -1
  ELSE IF WeightsLess(TertiaryWeight, b, a) THEN 1
  ELSE 0

\* The comparator of chooseCanonicalName: longer first, then localeCompare.
canonicalCompare(a, b) ==
  LET lengthDiff == Len(b) - Len(a)
  IN  IF lengthDiff # 0 THEN lengthDiff ELSE localeCompare(a, b)

\* sorted[0] of the stable sort of names under the comparator: the first
\* name, in list order, that no other name precedes.
chooseCanonicalName(names) ==
  IF Len(names) = 0 THEN <<>>
  ELSE IF Len(names) = 1 THEN names[1]
  ELSE names[CHOOSE i \in 1..Len(names) :
               /\ \A j \in 1..Len(names) : canonicalCompare(names[j], names[i]) >= 0
               /\ \A j \in 1..(i - 1) : canonicalCompare(names[j], names[i]) # 0]

\* ------------------------------------------------------------------------
\* post-process.ts: cleanTeamName
\* ------------------------------------------------------------------------

\* null, the rejection result of cleanTeamName: a one-element sequence
\* whose element is no code unit, so that it differs from every string.
Null == <<"null">>

\* s.replace(/c/g, r) for one code unit c and a replacement string r.
RECURSIVE ReplaceChar(_, _, _)
ReplaceChar(s, c, r) ==
  IF s = <<>> THEN <<>>
  ELSE (IF Head(s) = c THEN r ELSE <<Head(s)>>) \o ReplaceChar(Tail(s), c, r)

\* s.replace(/^["']|["']$/g, ''): a leading quote and a trailing quote.
IsQuote(c) == c \in {"\"", "'"}
StripWrappingQuotes(s) ==
  With(IF s # <<>> /\ IsQuote(Head(s)) THEN Tail(s) ELSE s, LAMBDA a :
    IF a # <<>> /\ IsQuote(a[Len(a)]) THEN SubSeq(a, 1, Len(a) - 1) ELSE a)

\* The class of control characters without U+007F-U+009F.
IsControlC0(c) == Code[c] \in 0..31

\* The regex classes for U+0000-U+001F and U+007F-U+009F, for U+E000-U+F8FF
\* and for U+FFF0-U+FFFF.
IsControl(c) == Code[c] \in 0..31 \/ Code[c] \in 127..159
IsPrivateUse(c) == Code[c] \in 57344..63743
IsSpecial(c) == Code[c] \in 65520..65535
IsKept(c) == ~IsControl(c) /\ ~IsPrivateUse(c) /\ ~IsSpecial(c)

\* s.replace(/\s+/g, ' ')
RECURSIVE CollapseSpaces(_)
CollapseSpaces(s) ==
  IF s = <<>> THEN <<>>
  ELSE IF IsSpace(Head(s))
    THEN <<" ">> \o CollapseSpaces(TrimStart(s))
    ELSE <<Head(s)>> \o CollapseSpaces(Tail(s))

\* Step 2 of cleanTeamName.
NormalizeUnicode(s) ==
  LET q1 == ReplaceChar(ReplaceChar(s, "U+2018", <<"'">>), "U+2019", <<"'">>)
      q2 == ReplaceChar(ReplaceChar(q1, "U+201C", <<>>), "U+201D", <<>>)
      d  == ReplaceChar(ReplaceChar(q2, "U+2013", <<"-">>), "U+2014", <<"-">>)
      e  == ReplaceChar(d, "U+2026", <<".", ".", ".">>)
      w  == StripWrappingQuotes(e)
      k  == SelectSeq(ReplaceChar(w, "U+F8FF", <<>>), IsKept)
  IN  trim(CollapseSpaces(k))

\* s.replace(re, '') for a regex re anchored at the end ($): the match is
\* the longest suffix of s in the language of re, Matches(t) telling
\* whether t is in it; s is unchanged when no suffix matches.
StripSuffix(s, Matches(_)) ==
  IF \E p \in 0..Len(s) : Matches(substringFrom(s, p))
    THEN substring(s, 0, CHOOSE p \in 0..Len(s) :
                            /\ Matches(substringFrom(s, p))
                            /\ \A q \in 0..(p - 1) : ~Matches(substringFrom(s, q)))
    ELSE s

\* /'s$/
IsPossessive(t) == t = <<"'", "s">>

\* /[,.!]+\)*$/
IsPunctThenParens(t) ==
  \E j \in 1..Len(t) :
    /\ \A i \in 1..j : t[i] \in {",", ".", "!"}
    /\ \A i \in (j + 1)..Len(t) : t[i] = ")"

\* /^[a-zA-Z0-9]{2}$/
IsAlnum(c) == IsUpper(c) \/ IsLower(c) \/ IsDigit(c)
\* The test of step 5 passed by any two code units.
IsTwoCodeUnits(s) == Len(s) = 2

IsTwoAlnum(s) == Len(s) = 2 /\ IsAlnum(s[1]) /\ IsAlnum(s[2])

\* /\s\([A-Z&]+\)$/
IsParenAcronym(t) ==
  /\ Len(t) >= 4
  /\ IsSpace(t[1])
  /\ t[2] = "("
  /\ \A i \in 3..(Len(t) - 1) : IsUpper(t[i]) \/ t[i] = "&"
  /\ t[Len(t)] = ")"

\* /\)+$/
IsParens(t) == t # <<>> /\ \A i \in 1..Len(t) : t[i] = ")"

\* /\s(team|group|org|organization|department|division)$/i
Suffixes ==
  { <<"t", "e", "a", "m">>,
    <<"g", "r", "o", "u", "p">>,
    <<"o", "r", "g">>,
    <<"o", "r", "g", "a", "n", "i", "z", "a", "t", "i", "o", "n">>,
    <<"d", "e", "p", "a", "r", "t", "m", "e", "n", "t">>,
    <<"d", "i", "v", "i", "s", "i", "o", "n">> }
\* The suffix words without the white space before them.
IsSuffixLetters(t) == toLowerCase(t) \in Suffixes

IsSuffixWord(t) ==
  t # <<>> /\ IsSpace(t[1]) /\ toLowerCase(Tail(t)) \in Suffixes

\* /[,.!)"]+$/
IsTrailingPunct(t) ==
  t # <<>> /\ \A i \in 1..Len(t) : t[i] \in {",", ".", "!", ")", "\""}

\* The callback without its test for acronyms.
TitleTokenAlways(txt) == <<ToUpper[txt[1]]>> \o toLowerCase(Tail(txt))

\* The callback of step 11, applied to one token.
TitleToken(txt) ==
  IF toUpperCase(txt) = txt THEN txt
  ELSE <<ToUpper[txt[1]]>> \o toLowerCase(Tail(txt))

\* The regex class \w.
IsWord(c) == IsAlnum(c) \/ c = "_"

\* s.replace(/\w\S*/g, callback): each token starts at a word character
\* and runs to the next white space; what lies between tokens is kept.
\* The length of the longest prefix of s without white space.
TokenLength(s) ==
  IF \E i \in 1..Len(s) : IsSpace(s[i])
    THEN (CHOOSE i \in 1..Len(s) :
            IsSpace(s[i]) /\ \A j \in 1..(i - 1) : ~IsSpace(s[j])) - 1
    ELSE Len(s)

RECURSIVE TitleCase(_)
TitleCase(s) ==
  IF s = <<>> THEN <<>>
  ELSE IF IsWord(Head(s))
    THEN With(TokenLength(s), LAMBDA n :
           TitleToken(SubSeq(s, 1, n)) \o TitleCase(SubSeq(s, n + 1, Len(s))))
    ELSE <<Head(s)>> \o TitleCase(Tail(s))

\* Steps 1 to 4 of cleanTeamName.
CleanSteps1To4(name) ==
  LET s1 == trim(name)
      s2 == NormalizeUnicode(s1)
      s3 == trim(StripSuffix(s2, IsPossessive))
  IN  trim(StripSuffix(s3, IsPunctThenParens))

\* Steps 6 and 6b of cleanTeamName.
CleanStep6(s4) ==
  trim(StripSuffix(trim(StripSuffix(s4, IsParenAcronym)), IsParens))

\* Step 7 of cleanTeamName.
CleanStep7(s6b) == trim(StripSuffix(s6b, IsSuffixWord))

\* Steps 8 and 9 of cleanTeamName.
CleanSteps8To9(s7) ==
  trim(StripSuffix(trim(StripSuffix(s7, IsPossessive)), IsTrailingPunct))

\* Steps 6 to 9 of cleanTeamName.
CleanSteps6To9(s4) == CleanSteps8To9(CleanStep7(CleanStep6(s4)))

cleanTeamName(name) ==
  With(CleanSteps1To4(name), LAMBDA s4 :
    IF Len(s4) <= 2 /\ ~IsTwoAlnum(s4) THEN Null
    ELSE With(CleanSteps6To9(s4), LAMBDA s9 :
           IF Len(s9) = 0 THEN Null ELSE TitleCase(s9)))

\* The values the local cleanedName holds in a call of cleanTeamName: after
\* step 4, after step 6b, after step 7 and after step 9 (Null for a step
\* the call does not reach), and what the call returns.
CleanStages(name) ==
  With(CleanSteps1To4(name), LAMBDA s4 :
    IF Len(s4) <= 2 /\ ~IsTwoAlnum(s4)
      THEN [s4 |-> s4, s6b |-> Null, s7 |-> Null, s9 |-> Null, r |-> Null]
      ELSE With(CleanStep6(s4), LAMBDA s6b :
           With(CleanStep7(s6b), LAMBDA s7 :
             [s4 |-> s4, s6b |-> s6b, s7 |-> s7, s9 |-> CleanSteps8To9(s7),
              r |-> cleanTeamName(name)])))

\* ------------------------------------------------------------------------
\* process-org-data: findLongestCommonPrefix
\* ------------------------------------------------------------------------

\* [...strings].sort(): ascending in the order of StrLess.
RECURSIVE Insert(_, _)
Insert(sorted, x) ==
  IF sorted = <<>> THEN <<x>>
  ELSE IF StrLess(x, Head(sorted)) THEN <<x>> \o sorted
  ELSE <<Head(sorted)>> \o Insert(Tail(sorted), x)

RECURSIVE sort(_)
sort(strings) ==
  IF strings = <<>> THEN <<>>
  ELSE Insert(sort(SubSeq(strings, 1, Len(strings) - 1)), strings[Len(strings)])

\* The value of i after
\*   while (i < first.length && first[i] === last[i]) i++
\* started at i (0-based); last[i] is undefined beyond the end of last.
RECURSIVE MismatchIndex(_, _, _)
MismatchIndex(first, last, i) ==
  IF i < Len(first) /\ i < Len(last) /\ first[i + 1] = last[i + 1]
    THEN MismatchIndex(first, last, i + 1)
    ELSE i

\* /^[A-Z0-9/]+$/
IsAcronymLike(s) ==
  s # <<>> /\ \A i \in 1..Len(s) : IsUpper(s[i]) \/ IsDigit(s[i]) \/ s[i] = "/"

\* Math.max(lastSpace, lastSlash, lastDash)
LastBoundary(prefix) ==
  Math_max(lastIndexOf(prefix, " "),
           Math_max(lastIndexOf(prefix, "/"), lastIndexOf(prefix, "-")))

findLongestCommonPrefix(strings) ==
  IF Len(strings) = 0 THEN <<>>
  ELSE IF Len(strings) = 1 THEN <<>>
  ELSE
    With(sort(strings), LAMBDA sorted :
    With(sorted[1], LAMBDA first :
    With(sorted[Len(sorted)], LAMBDA last :
    With(MismatchIndex(first, last, 0), LAMBDA i :
    With(trim(substring(first, 0, i)), LAMBDA prefix :
      IF Len(prefix) >= 2
        THEN With(prefix[Len(prefix)], LAMBDA lastChar :
             With(LastBoundary(prefix), LAMBDA lastBoundary :
               IF i < Len(first) /\ first[i + 1] = " " THEN prefix
               ELSE IF lastChar = " " \/ lastChar = "/" \/ lastChar = "-"
                 THEN trim(prefix)
               ELSE IF IsAcronymLike(prefix) THEN prefix
               ELSE IF lastBoundary > 0
                 THEN trim(substring(prefix, 0, lastBoundary + 1))
               ELSE <<>>))
        ELSE <<>>)))))

\* ------------------------------------------------------------------------
\* Objects and the heap
\* ------------------------------------------------------------------------

\* An object is the sequence of its own properties in the order Object.keys
\* and for-in list them; its keys are pairwise different.  The model covers
\* the keys that are no property of Object.prototype (no label is
\* "__proto__"), so a property read finds own properties only.
Keys(o) == [i \in 1..Len(o) |-> o[i].k]
Has(o, k) == \E i \in 1..Len(o) : o[i].k = k
Get(o, k) == o[CHOOSE i \in 1..Len(o) : o[i].k = k].v

\* A key that is an array index (a canonical decimal numeral) is listed
\* before every other key, in ascending numeric order; other keys are listed
\* in the order of their creation.
IsArrayIndex(k) ==
  /\ k # <<>>
  /\ Len(k) <= 9
  /\ \A i \in 1..Len(k) : IsDigit(k[i])
  /\ (Len(k) > 1 => k[1] # "0")

IndexLess(a, b) == Len(a) < Len(b) \/ (Len(a) = Len(b) /\ StrLess(a, b))

\* o[k] = v
Put(o, k, v) ==
  IF Has(o, k)
    THEN [i \in 1..Len(o) |-> IF o[i].k = k THEN [k |-> k, v |-> v] ELSE o[i]]
  ELSE IF IsArrayIndex(k)
    THEN LET before == SelectSeq(o, LAMBDA e : IsArrayIndex(e.k) /\ IndexLess(e.k, k))
         IN  before \o <<[k |-> k, v |-> v]>> \o SubSeq(o, Len(before) + 1, Len(o))
  ELSE Append(o, [k |-> k, v |-> v])

\* Object.assign(target, source) on the objects themselves: the entries of
\* source are written into target in order.
RECURSIVE Assign(_, _)
Assign(target, source) ==
  IF source = <<>> THEN target
  ELSE Assign(Put(target, Head(source).k, Head(source).v), Tail(source))

\* The heap is the sequence of all objects created so far; a reference is an
\* index into it.  {} creates the object New(h) in the heap Alloc(h).
New(h) == Len(h) + 1
Alloc(h) == Append(h, <<>>)
Store(h, r, o) == [h EXCEPT ![r] = o]

\* The tree below reference r: the sequence of <<key, tree of the child>>.
RECURSIVE TreeAt(_, _)
TreeAt(h, r) == [i \in 1..Len(h[r]) |-> <<h[r][i].k, TreeAt(h, h[r][i].v)>>]

\* The result of a call: the heap it leaves and the reference it returns;
\* a call that exhausts the call stack (RangeError) returns no reference.
Returned(h, r) == [h |-> h, r |-> r]
Thrown(h) == [h |-> h, r |-> 0]
IsThrown(res) == res.r = 0

\* ------------------------------------------------------------------------
\* process-org-data: groupByPrefix
\* ------------------------------------------------------------------------

\* The index of the first entry of prefixGroups (a Map, in insertion order)
\* whose prefix the key starts with; 0 when there is none.
FindGroup(prefixGroups, key) ==
  IF \E g \in 1..Len(prefixGroups) : startsWith(key, prefixGroups[g].prefix)
    THEN CHOOSE g \in 1..Len(prefixGroups) :
           /\ startsWith(key, prefixGroups[g].prefix)
           /\ \A f \in 1..(g - 1) : ~startsWith(key, prefixGroups[f].prefix)
    ELSE 0

MapHas(prefixGroups, prefix) ==
  \E g \in 1..Len(prefixGroups) : prefixGroups[g].prefix = prefix

\* The filter with a pairwise prefix of two characters accepted as well.
IsPotentialMemberOfTwo(key, k) ==
  IF k = key THEN TRUE
  ELSE With(findLongestCommonPrefix(<<key, k>>), LAMBDA prefix :
         Len(prefix) >= 2 /\ startsWith(k, prefix))

\* keys.filter(k => k === key || (prefix.length >= 3 && k.startsWith(prefix)))
\* with prefix = findLongestCommonPrefix([key, k]).
IsPotentialMember(key, k) ==
  IF k = key THEN TRUE
  ELSE With(findLongestCommonPrefix(<<key, k>>), LAMBDA prefix :
         Len(prefix) >= 3 /\ startsWith(k, prefix))

PotentialGroup(keys, key) == SelectSeq(keys, LAMBDA k : IsPotentialMember(key, k))

\* The iteration with a potential group of two keys accepted as well.
GroupStepOfPairs(st, keys, key, minGroupSize) ==
  With(FindGroup(st.prefixGroups, key), LAMBDA g :
    IF g # 0
      THEN [st EXCEPT !.prefixGroups[g].group = Append(@, key)]
    ELSE
      With(PotentialGroup(keys, key), LAMBDA potentialGroup :
        IF Len(potentialGroup) >= minGroupSize - 1
          THEN With(findLongestCommonPrefix(potentialGroup), LAMBDA prefix :
                 IF prefix # <<>> /\ ~MapHas(st.prefixGroups, prefix)
                   THEN [st EXCEPT !.prefixGroups =
                           Append(@, [prefix |-> prefix, group |-> potentialGroup])]
                   ELSE [st EXCEPT !.ungrouped = Append(@, key)])
          ELSE [st EXCEPT !.ungrouped = Append(@, key)]))

\* One iteration of the first loop of groupByPrefix, for one key.
GroupStep(st, keys, key, minGroupSize) ==
  With(FindGroup(st.prefixGroups, key), LAMBDA g :
    IF g # 0
      THEN [st EXCEPT !.prefixGroups[g].group = Append(@, key)]
    ELSE
      With(PotentialGroup(keys, key), LAMBDA potentialGroup :
        IF Len(potentialGroup) >= minGroupSize
          THEN With(findLongestCommonPrefix(potentialGroup), LAMBDA prefix :
                 IF prefix # <<>> /\ ~MapHas(st.prefixGroups, prefix)
                   THEN [st EXCEPT !.prefixGroups =
                           Append(@, [prefix |-> prefix, group |-> potentialGroup])]
                   ELSE [st EXCEPT !.ungrouped = Append(@, key)])
          ELSE [st EXCEPT !.ungrouped = Append(@, key)]))

\* The first loop of groupByPrefix from the i-th key on.
RECURSIVE GroupLoop(_, _, _, _)
GroupLoop(st, keys, i, minGroupSize) ==
  IF i > Len(keys) THEN st
  ELSE GroupLoop(GroupStep(st, keys, keys[i], minGroupSize), keys, i + 1,
                 minGroupSize)

\* prefixGroups and ungrouped as the first loop leaves them.
FindGroups(keys, minGroupSize) ==
  GroupLoop([prefixGroups |-> <<>>, ungrouped |-> <<>>], keys, 1, minGroupSize)

\* The member keeps its key under the parent.
ChildNameWhole(key, prefix) == key

\* The name of a group member under its group's parent.
ChildName(key, prefix) ==
  With(trim(substringFrom(key, Len(prefix))), LAMBDA childName :
    IF Len(childName) < 2 THEN key ELSE childName)

RECURSIVE groupByPrefix(_, _, _, _)
RECURSIVE BuildChildren(_, _, _, _, _, _, _, _)
RECURSIVE BuildGroups(_, _, _, _, _, _, _)
RECURSIVE BuildUngrouped(_, _, _, _, _, _, _)

\* for (const key of group) groupedChildren[childName] = groupByPrefix(node[key])
\* from the j-th member on.  d is the call-stack depth left for the calls.
BuildChildren(h, node, prefix, group, j, groupedChildren, minGroupSize, d) ==
  IF j > Len(group) THEN Returned(h, groupedChildren)
  ELSE
    With(groupByPrefix(h, Get(h[node], group[j]), minGroupSize, d), LAMBDA sub :
      IF IsThrown(sub) THEN sub
      ELSE BuildChildren(
             Store(sub.h, groupedChildren,
                   Put(sub.h[groupedChildren], ChildName(group[j], prefix), sub.r)),
             node, prefix, group, j + 1, groupedChildren, minGroupSize, d))

\* for (const [prefix, group] of prefixGroups.entries()) from the g-th entry
\* on; a group below minGroupSize is moved to ungrouped.  Returns the heap,
\* result (or no reference) and ungrouped.
BuildGroups(h, node, st, g, result, minGroupSize, d) ==
  IF g > Len(st.prefixGroups) THEN [h |-> h, r |-> result, ungrouped |-> st.ungrouped]
  ELSE
    LET prefix == st.prefixGroups[g].prefix
        group  == st.prefixGroups[g].group
        groupedChildren == New(h)
    IN  IF Len(group) >= minGroupSize
          THEN
            With(BuildChildren(Alloc(h), node, prefix, group, 1, groupedChildren,
                               minGroupSize, d), LAMBDA built :
              IF IsThrown(built) THEN [h |-> built.h, r |-> 0, ungrouped |-> <<>>]
              ELSE
                With(groupByPrefix(built.h, groupedChildren, minGroupSize, d),
                     LAMBDA sub :
                  IF IsThrown(sub) THEN [h |-> sub.h, r |-> 0, ungrouped |-> <<>>]
                  ELSE BuildGroups(
                         Store(sub.h, result, Put(sub.h[result], trim(prefix), sub.r)),
                         node, st, g + 1, result, minGroupSize, d)))
          ELSE BuildGroups(h, node, [st EXCEPT !.ungrouped = @ \o group], g + 1,
                           result, minGroupSize, d)

\* for (const key of ungrouped) result[key] = groupByPrefix(node[key])
BuildUngrouped(h, node, ungrouped, j, result, minGroupSize, d) ==
  IF j > Len(ungrouped) THEN Returned(h, result)
  ELSE
    With(groupByPrefix(h, Get(h[node], ungrouped[j]), minGroupSize, d), LAMBDA sub :
      IF IsThrown(sub) THEN sub
      ELSE BuildUngrouped(
             Store(sub.h, result, Put(sub.h[result], ungrouped[j], sub.r)),
             node, ungrouped, j + 1, result, minGroupSize, d))

\* groupByPrefix(node, minGroupSize) in heap h with call-stack depth d left:
\* the call needs one frame, and its recursive calls get d - 1.
groupByPrefix(h, node, minGroupSize, d) ==
  IF d = 0 THEN Thrown(h)
  ELSE
    LET keys == Keys(h[node])
    IN  IF Len(keys) < minGroupSize THEN Returned(h, node)
        ELSE
          With(BuildGroups(Alloc(h), node, FindGroups(keys, minGroupSize), 1,
                           New(h), minGroupSize, d - 1), LAMBDA groups :
            IF IsThrown(groups) THEN Thrown(groups.h)
            ELSE BuildUngrouped(groups.h, node, groups.ungrouped, 1, New(h),
                                minGroupSize, d - 1))

\* ------------------------------------------------------------------------
\* process-org-data: deduplicateSimilarKeys
\* ------------------------------------------------------------------------

\* similarKeys without the test of processed.
SimilarKeysOfAll(keys, key, processed) ==
  <<key>> \o SelectSeq(keys, LAMBDA otherKey :
                key # otherKey /\ areNamesSimilar(key, otherKey))

\* similarKeys for the seed key: the seed, then every other key not yet
\* processed that is similar to it, in the order of keys.
SimilarKeys(keys, key, processed) ==
  <<key>> \o SelectSeq(keys, LAMBDA otherKey :
                /\ key # otherKey
                /\ otherKey \notin processed
                /\ areNamesSimilar(key, otherKey))

\* The merge that keeps the child of the earlier member when two members
\* have a child of the same label.
RECURSIVE MergeChildrenKeepFirst(_, _, _, _)
MergeChildrenKeepFirst(h, node, similarKeys, mergedChildren) ==
  IF similarKeys = <<>> THEN mergedChildren
  ELSE MergeChildrenKeepFirst(h, node, Tail(similarKeys),
         Assign(mergedChildren,
                SelectSeq(h[Get(h[node], Head(similarKeys))],
                          LAMBDA e : ~Has(mergedChildren, e.k))))

\* for (const similarKey of similarKeys)
\*   Object.assign(mergedChildren, node[similarKey])
RECURSIVE MergeChildren(_, _, _, _)
MergeChildren(h, node, similarKeys, mergedChildren) ==
  IF similarKeys = <<>> THEN mergedChildren
  ELSE MergeChildren(h, node, Tail(similarKeys),
                     Assign(mergedChildren, h[Get(h[node], Head(similarKeys))]))

RECURSIVE deduplicateSimilarKeys(_, _, _)
RECURSIVE DedupeLoop(_, _, _, _, _, _, _)

\* The loop of deduplicateSimilarKeys from the i-th key on.
DedupeLoop(h, node, keys, i, processed, deduplicated, d) ==
  IF i > Len(keys) THEN Returned(h, deduplicated)
  ELSE IF keys[i] \in processed
    THEN DedupeLoop(h, node, keys, i + 1, processed, deduplicated, d)
  ELSE
    With(SimilarKeys(keys, keys[i], processed), LAMBDA similarKeys :
    With(deduplicateSimilarKeys(
           Append(h, MergeChildren(h, node, similarKeys, <<>>)), New(h), d),
         LAMBDA sub :
      IF IsThrown(sub) THEN sub
      ELSE DedupeLoop(
             Store(sub.h, deduplicated,
                   Put(sub.h[deduplicated], chooseCanonicalName(similarKeys), sub.r)),
             node, keys, i + 1,
             processed \cup {similarKeys[j] : j \in 1..Len(similarKeys)},
             deduplicated, d)))

deduplicateSimilarKeys(h, node, d) ==
  IF d = 0 THEN Thrown(h)
  ELSE
    LET keys == Keys(h[node])
    IN  IF Len(keys) = 0 THEN Returned(h, node)
        ELSE DedupeLoop(Alloc(h), node, keys, 1, {}, New(h), d - 1)

\* ------------------------------------------------------------------------
\* process-org-data: processOrgData
\* ------------------------------------------------------------------------

\* The group size processOrgData passes to groupByPrefix.
minGroupSize == 3

\* null, which is no reference to an object (and is not the absence of a
\* reference that Thrown leaves).
NoNode == -1

RECURSIVE processOrgData(_, _, _)
RECURSIVE CleanLoop(_, _, _, _, _)
RECURSIVE CleanEntry(_, _, _, _, _, _)

\* The body with the children of a key written over those that an earlier
\* key of the same cleaned name left.
CleanEntryReplace(h, node, i, cleanedNode, cleanedKey, d) ==
  With(processOrgData(h, h[node][i].v, d), LAMBDA sub :
    IF IsThrown(sub) THEN sub
    ELSE IF sub.r = NoNode THEN CleanLoop(sub.h, node, i + 1, cleanedNode, d)
    ELSE CleanLoop(
           Store(sub.h, cleanedNode, Put(sub.h[cleanedNode], cleanedKey, sub.r)),
           node, i + 1, cleanedNode, d))

\* The body of the loop for the i-th key, which cleanTeamName accepted as
\* cleanedKey, and the rest of the loop.
CleanEntry(h, node, i, cleanedNode, cleanedKey, d) ==
  With(processOrgData(h, h[node][i].v, d), LAMBDA sub :
    IF IsThrown(sub) THEN sub
    ELSE IF sub.r = NoNode THEN CleanLoop(sub.h, node, i + 1, cleanedNode, d)
    ELSE IF Has(sub.h[cleanedNode], cleanedKey)
      THEN With(Get(sub.h[cleanedNode], cleanedKey), LAMBDA existing :
             CleanLoop(
               Store(sub.h, existing, Assign(sub.h[existing], sub.h[sub.r])),
               node, i + 1, cleanedNode, d))
    ELSE CleanLoop(
           Store(sub.h, cleanedNode, Put(sub.h[cleanedNode], cleanedKey, sub.r)),
           node, i + 1, cleanedNode, d))

\* The loop with the children of a junk key attached to the node in the
\* place of the key.
CleanLoopReattach(h, node, i, cleanedNode, d) ==
  IF i > Len(h[node]) THEN Returned(h, cleanedNode)
  ELSE
    With(cleanTeamName(h[node][i].k), LAMBDA cleanedKey :
      IF cleanedKey = Null
        THEN With(processOrgData(h, h[node][i].v, d), LAMBDA sub :
               IF IsThrown(sub) THEN sub
               ELSE CleanLoop(
                      Store(sub.h, cleanedNode,
                            Assign(sub.h[cleanedNode], sub.h[sub.r])),
                      node, i + 1, cleanedNode, d))
        ELSE CleanEntry(h, node, i, cleanedNode, cleanedKey, d))

\* for (const key in node) from the i-th key on: cleanedNode receives the
\* processed children of every key that cleanTeamName accepts.
CleanLoop(h, node, i, cleanedNode, d) ==
  IF i > Len(h[node]) THEN Returned(h, cleanedNode)
  ELSE
    With(cleanTeamName(h[node][i].k), LAMBDA cleanedKey :
      IF cleanedKey = Null THEN CleanLoop(h, node, i + 1, cleanedNode, d)
      ELSE CleanEntry(h, node, i, cleanedNode, cleanedKey, d))

\* The three stages of one call of processOrgData, with the references of
\* its locals; r is what the call returns.
ProcessStages(h, node, d) ==
  LET none == [h |-> h, r |-> 0, cleanedNode |-> 0, deduplicated |-> 0, grouped |-> 0]
  IN
  IF d = 0 THEN none
  ELSE
    With(CleanLoop(Alloc(h), node, 1, New(h), d - 1), LAMBDA cleaned :
      IF IsThrown(cleaned) THEN [none EXCEPT !.h = cleaned.h]
      ELSE
        With(deduplicateSimilarKeys(cleaned.h, cleaned.r, d - 1),
             LAMBDA deduplicated :
          IF IsThrown(deduplicated)
            THEN [none EXCEPT !.h = deduplicated.h, !.cleanedNode = cleaned.r]
          ELSE
            With(groupByPrefix(deduplicated.h, deduplicated.r, minGroupSize, d - 1),
                 LAMBDA grouped :
              IF IsThrown(grouped)
                THEN [none EXCEPT !.h = grouped.h, !.cleanedNode = cleaned.r,
                                  !.deduplicated = deduplicated.r]
              ELSE [h |-> IF Len(Keys(grouped.h[grouped.r])) > 0
                            THEN grouped.h ELSE Alloc(grouped.h),
                    r |-> IF Len(Keys(grouped.h[grouped.r])) > 0
                            THEN grouped.r ELSE New(grouped.h),
                    cleanedNode |-> cleaned.r,
                    deduplicated |-> deduplicated.r,
                    grouped |-> grouped.r])))

\* The call that also writes what it returns into the node it was given.
processOrgDataInPlace(h, node, d) ==
  With(ProcessStages(h, node, d), LAMBDA st :
    IF st.r = 0 THEN [h |-> st.h, r |-> st.r]
    ELSE [h |-> Store(st.h, node, Assign(st.h[node], st.h[st.r])), r |-> st.r])

processOrgData(h, node, d) ==
  With(ProcessStages(h, node, d), LAMBDA st : [h |-> st.h, r |-> st.r])

\* ------------------------------------------------------------------------
\* Input trees
\* ------------------------------------------------------------------------

\* Raw labels, as the external source supplies them.
L_GpuA == <<"G", "P", "U", " ", "A">>
L_GpuB == <<"G", "P", "U", " ", "B">>
L_GpuC == <<"G", "P", "U", " ", "C">>
L_GpuArch == <<"G", "P", "U", " ", "A", "r", "c", "h">>
L_Design == <<"D", "e", "s", "i", "g", "n">>
L_AimlData == <<"A", "I", "M", "L", " ", "D", "a", "t", "a">>
L_AimlInfra == <<"A", "I", "M", "L", " ", "I", "n", "f", "r", "a">>
L_AimlSearch == <<"A", "I", "M", "L", " ", "S", "e", "a", "r", "c", "h">>
L_AimlDev == <<"A", "I", "M", "L", " ", "D", "e", "v">>
L_DesignSys == <<"D", "e", "s", "i", "g", "n", " ", "S", "y", "s">>
L_DataApps == <<"D", "a", "t", "a", " ", "A", "p", "p", "s">>
L_DataBase == <<"D", "a", "t", "a", " ", "B", "a", "s", "e">>
L_DataCore == <<"D", "a", "t", "a", " ", "C", "o", "r", "e">>
L_DataCloud == <<"D", "a", "t", "a", " ", "C", "l", "o", "u", "d">>
L_DataCost == <<"D", "a", "t", "a", " ", "C", "o", "s", "t">>
L_FrontEnd == <<"F", "r", "o", "n", "t", " ", "E", "n", "d">>
L_FrontDashEnd == <<"F", "r", "o", "n", "t", "-", "E", "n", "d">>
L_Frontend == <<"F", "r", "o", "n", "t", "e", "n", "d">>
L_FrontEndDev == <<"F", "r", "o", "n", "t", " ", "E", "n", "d", " ", "D", "e", "v">>
L_FrontEndDevel ==
  <<"F", "r", "o", "n", "t", " ", "E", "n", "d", " ", "D", "e", "v", "e", "l">>
L_EngTeam == <<"E", "n", "g", " ", "T", "e", "a", "m">>
L_EngGroup == <<"E", "n", "g", " ", "G", "r", "o", "u", "p">>
L_EngComma == <<"e", "n", "g", ",">>
L_JunkS == <<"s">>
L_JunkParen == <<")">>
L_Web == <<"W", "e", "b">>
L_Pa == <<"P", "a">>
L_Qb == <<"Q", "b">>
L_WebApps == <<"W", "e", "b", " ", "A", "p", "p", "s">>
L_WebAppsDev == <<"W", "e", "b", " ", "A", "p", "p", "s", " ", "D", "e", "v">>
L_Kelvin == <<"U+212A", "b">>

\* A tree as a value: the sequence of <<label, tree of the children>>.
Leaf == <<>>
Node1(l, t) == << <<l, t>> >>

\* A family of inputs: the labels its siblings are drawn from and the
\* subtrees a sibling may carry.
Families ==
  { [labels |-> {L_GpuA, L_GpuB, L_GpuC, L_GpuArch, L_Design},
     kids   |-> {Leaf, Node1(L_Web, Leaf)}],
    [labels |-> {L_AimlData, L_AimlInfra, L_AimlSearch, L_AimlDev, L_DesignSys},
     kids   |-> {Leaf, Node1(L_EngTeam, Leaf)}],
    [labels |-> {L_DataApps, L_DataBase, L_DataCore, L_DataCloud, L_DataCost},
     kids   |-> {Leaf, Node1(L_JunkS, Node1(L_Web, Leaf))}],
    [labels |-> {L_FrontEnd, L_FrontDashEnd, L_Frontend, L_FrontEndDev,
                 L_FrontEndDevel},
     kids   |-> {Node1(L_Web, Node1(L_Pa, Leaf)), Node1(L_Web, Node1(L_Qb, Leaf))}],
    [labels |-> {L_EngTeam, L_EngGroup, L_EngComma, L_JunkS, L_JunkParen},
     kids   |-> {Node1(L_Web, Node1(L_Pa, Leaf)), Node1(L_Web, Node1(L_Qb, Leaf)),
                 Leaf}] }

\* The largest number of siblings at the top level of an input.
MaxKeys == 3

\* The sibling sequences over a family: at most MaxKeys siblings with
\* pairwise different labels, in every order.
SiblingsOf(f) ==
  UNION { { t \in [1..n -> {<<l, k>> : l \in f.labels, k \in f.kids}] :
              \A i, j \in 1..n : i # j => t[i][1] # t[j][1] } : n \in 0..MaxKeys }

RawTrees == UNION { SiblingsOf(f) : f \in Families }

\* The rearrangements of a list.
Rearrangements(l) ==
  { [i \in 1..Len(l) |-> l[f[i]]] :
      f \in { g \in [1..Len(l) -> 1..Len(l)] :
                \A i, j \in 1..Len(l) : g[i] = g[j] => i = j } }

\* The input of the test 'should group keys with common prefixes': five
\* siblings without children, in every order of insertion.
L_AimlInfrastructureTeams ==
  <<"A", "I", "M", "L", " ", "I", "n", "f", "r", "a", "s", "t", "r", "u",
    "c", "t", "u", "r", "e", " ", "T", "e", "a", "m", "s">>
L_AimlDataPlatform ==
  <<"A", "I", "M", "L", " ", "D", "a", "t", "a", " ", "P", "l", "a", "t",
    "f", "o", "r", "m">>
L_AimlEngineeringEfficiency ==
  <<"A", "I", "M", "L", " ", "E", "n", "g", "i", "n", "e", "e", "r", "i",
    "n", "g", " ", "E", "f", "f", "i", "c", "i", "e", "n", "c", "y">>
L_AimlSearchInfrastructure ==
  <<"A", "I", "M", "L", " ", "S", "e", "a", "r", "c", "h", " ", "I", "n",
    "f", "r", "a", "s", "t", "r", "u", "c", "t", "u", "r", "e">>
L_DesignSystem ==
  <<"D", "e", "s", "i", "g", "n", " ", "S", "y", "s", "t", "e", "m">>

ExampleLabels ==
  <<L_AimlInfrastructureTeams, L_AimlDataPlatform, L_AimlEngineeringEfficiency,
    L_AimlSearchInfrastructure, L_DesignSystem>>

ExampleTrees ==
  { [i \in 1..Len(l) |-> <<l[i], Leaf>>] : l \in Rearrangements(ExampleLabels) }

\* The object for a tree value, created in heap h.
RECURSIVE BuildTree(_, _)
RECURSIVE BuildEntries(_, _, _, _)
BuildEntries(h, tree, i, obj) ==
  IF i > Len(tree) THEN Returned(h, obj)
  ELSE With(BuildTree(h, tree[i][2]), LAMBDA sub :
         BuildEntries(Store(sub.h, obj, Put(sub.h[obj], tree[i][1], sub.r)),
                      tree, i + 1, obj))
BuildTree(h, tree) == BuildEntries(Alloc(h), tree, 1, New(h))

\* ------------------------------------------------------------------------
\* The state machine: one call of processOrgData on an input tree, then a
\* second call on what the first returned.
\* ------------------------------------------------------------------------

\* The call-stack depth available to a call of processOrgData.
MaxStack == 8

VARIABLES
  heap,          \* the objects
  root,          \* the input object
  input,         \* the input tree as it was when it was handed over
  pc,            \* "start", "done" (first call over), "again" (second call over);
                 \* "pair", "compared" for a call of areNamesSimilar;
                 \* "list", "chosen" for a call of chooseCanonicalName;
                 \* "raw", "cleaned" for a call of cleanTeamName;
                 \* "labels", "prefix" for a call of findLongestCommonPrefix;
                 \* "view" while an OrgTreeViewer is mounted
  cleanedNode,   \* the locals of the first call, 0 while there is none
  deduplicated,
  grouped,
  result,        \* what the first call returned, 0 when it threw
  again,         \* what the second call returned, 0 when it threw
  name1,         \* the arguments of areNamesSimilar
  name2,
  similar,       \* what areNamesSimilar returned
  names,         \* the argument of chooseCanonicalName
  canonical,     \* what chooseCanonicalName returned
  rawName,       \* the argument of cleanTeamName
  cleanedName,   \* what cleanTeamName returned
  stages,        \* the values of its local cleanedName on the way
  strings,       \* the argument of findLongestCommonPrefix
  longestCommonPrefix,     \* what findLongestCommonPrefix returned
  orgData,       \* OrgTreeViewer: the prop, a tree
  treeNodes,     \* the memo of convertOrgToTreeNodes(orgData)
  expandedIds,   \* the state of useState<Set<string>>
  searchTerm,    \* the state of useState('')
  sortBy,        \* the state of useState<SortOption>('none')
  debouncedSearch,         \* what useDebounce(searchTerm, 300) returns
  filtered,                \* the local of the memo: the filtered nodes
  filteredAndSortedNodes,  \* the memo of the filtered and sorted nodes
  rows,          \* the rows of the tree in the last render, top to bottom
  event          \* the last event: its type and the id of the row clicked

\* The variables of the calls of processOrgData and those of the calls of
\* the functions of post-process.ts.
treeVars ==
  <<heap, root, input, cleanedNode, deduplicated, grouped, result, again>>
similarVars == <<name1, name2, similar>>
canonicalVars == <<names, canonical>>
cleanVars == <<rawName, cleanedName, stages>>
prefixVars == <<strings, longestCommonPrefix>>
callVars == <<similarVars, canonicalVars, cleanVars, prefixVars>>

viewVars ==
  <<orgData, treeNodes, expandedIds, searchTerm, sortBy, debouncedSearch,
    filtered, filteredAndSortedNodes, rows, event>>

vars == <<pc, treeVars, callVars, viewVars>>

\* No call of processOrgData is under way, and none of the functions of
\* post-process.ts.
NoTree ==
  /\ heap = <<>>
  /\ root = 0
  /\ input = <<>>
  /\ cleanedNode = 0
  /\ deduplicated = 0
  /\ grouped = 0
  /\ result = 0
  /\ again = 0

NoSimilar ==
  /\ name1 = <<>>
  /\ name2 = <<>>
  /\ similar = FALSE

NoCanonical ==
  /\ names = <<>>
  /\ canonical = <<>>

NoClean ==
  /\ rawName = <<>>
  /\ cleanedName = <<>>
  /\ stages = <<>>

NoPrefix ==
  /\ strings = <<>>
  /\ longestCommonPrefix = <<>>

NoCall == NoSimilar /\ NoCanonical /\ NoClean /\ NoPrefix

\* No OrgTreeViewer is mounted.
NoView ==
  /\ orgData = <<>>
  /\ treeNodes = <<>>
  /\ expandedIds = {}
  /\ searchTerm = <<>>
  /\ sortBy = "none"
  /\ debouncedSearch = <<>>
  /\ filtered = <<>>
  /\ filteredAndSortedNodes = <<>>
  /\ rows = <<>>
  /\ event = [type |-> "none", id |-> <<>>]

\* The input object has been built from the tree t and no call was made.
InitOn(t) ==
  \E b \in {BuildTree(<<>>, t)} :
        /\ heap = b.h
        /\ root = b.r
        /\ input = TreeAt(b.h, b.r)
        /\ pc = "start"
        /\ cleanedNode = 0
        /\ deduplicated = 0
        /\ grouped = 0
        /\ result = 0
        /\ again = 0
        /\ NoCall
        /\ NoView

Init == \E t \in RawTrees : InitOn(t)

\* processOrgData(root)
ProcessOrgData ==
  /\ pc = "start"
  /\ \E st \in {ProcessStages(heap, root, MaxStack)} :
         /\ heap' = st.h
         /\ cleanedNode' = st.cleanedNode
         /\ deduplicated' = st.deduplicated
         /\ grouped' = st.grouped
         /\ result' = st.r
  /\ pc' = "done"
  /\ UNCHANGED <<root, input, again, callVars, viewVars>>

\* processOrgData(result), the first call having returned
Reprocess ==
  /\ pc = "done"
  /\ result # 0
  /\ \E st \in {processOrgData(heap, result, MaxStack)} :
         /\ heap' = st.h
         /\ again' = st.r
  /\ pc' = "again"
  /\ UNCHANGED <<root, input, cleanedNode, deduplicated, grouped, result,
                 callVars, viewVars>>

Next == ProcessOrgData \/ Reprocess

Spec == Init /\ [][Next]_vars

\* The same calls on the input of the test.
InitExample == \E t \in ExampleTrees : InitOn(t)

SpecExample == InitExample /\ [][Next]_vars

\* The same calls on siblings that share the start of their labels: each
\* label has its own children, and an input has three or four of the labels
\* of one family, in every order.
L_Front == <<"F", "r", "o", "n", "t">>
L_FrontsEnd == <<"F", "r", "o", "n", "t", "s", " ", "E", "n", "d">>
L_Frontier == <<"F", "r", "o", "n", "t", "i", "e", "r">>
L_Frontline == <<"F", "r", "o", "n", "t", "l", "i", "n", "e">>
L_AiResearch == <<"A", "I", " ", "R", "e", "s", "e", "a", "r", "c", "h">>
L_AiPlatform == <<"A", "I", " ", "P", "l", "a", "t", "f", "o", "r", "m">>
L_AiSafety == <<"A", "I", " ", "S", "a", "f", "e", "t", "y">>
L_AiLabs == <<"A", "I", " ", "L", "a", "b", "s">>
L_AimlOnly == <<"A", "I", "M", "L">>
L_AimlX == <<"A", "I", "M", "L", " ", "X">>

SiblingFamilies ==
  { { <<L_Front, Node1(L_Pa, Leaf)>>, <<L_FrontEnd, Node1(L_Qb, Leaf)>>,
      <<L_FrontsEnd, Node1(L_Web, Leaf)>>, <<L_Frontier, Leaf>>,
      <<L_Frontline, Leaf>> },
    { <<L_AiResearch, Node1(L_Pa, Leaf)>>, <<L_AiPlatform, Node1(L_Qb, Leaf)>>,
      <<L_AiSafety, Node1(L_Web, Leaf)>>, <<L_AiLabs, Leaf>>,
      <<L_Design, Leaf>> },
    { <<L_AimlOnly, Node1(L_Pa, Leaf)>>, <<L_AimlX, Node1(L_Qb, Leaf)>>,
      <<L_AimlData, Node1(L_Web, Leaf)>>, <<L_AimlInfra, Leaf>>,
      <<L_Design, Leaf>> } }

SiblingTrees ==
  UNION { { t \in [1..n -> f] : \A i, j \in 1..n : i # j => t[i] # t[j] } :
            n \in 3..4, f \in SiblingFamilies }

InitSiblings == \E t \in SiblingTrees : InitOn(t)

SpecSiblings == InitSiblings /\ [][Next]_vars

\* ------------------------------------------------------------------------
\* The state machine of one call of areNamesSimilar on a pair of names.
\* ------------------------------------------------------------------------

\* The longest name that is built from NameChars.
MaxNameLen == 3

NameChars == {"a", "b", "A", "-"}

\* The names: every string over NameChars up to MaxNameLen, and labels
\* whose normalised forms have the lengths 7, 8, 10, 11 and 13.
Names ==
  UNION { [1..n -> NameChars] : n \in 0..MaxNameLen }
    \cup {L_WebApps, L_WebAppsDev, L_Frontend, L_FrontEnd, L_FrontDashEnd,
          L_FrontEndDev, L_FrontEndDevel, L_Kelvin, <<"k", "b">>, <<"K", "B", "!">>}

InitSimilar ==
  /\ name1 \in Names
  /\ name2 \in Names
  /\ similar = FALSE
  /\ pc = "pair"
  /\ NoTree
  /\ NoCanonical
  /\ NoClean
  /\ NoPrefix
  /\ NoView

\* areNamesSimilar(name1, name2)
AreNamesSimilar ==
  /\ pc = "pair"
  /\ similar' = areNamesSimilar(name1, name2)
  /\ pc' = "compared"
  /\ UNCHANGED <<treeVars, name1, name2, canonicalVars, cleanVars, prefixVars,
                 viewVars>>

NextSimilar == AreNamesSimilar

SpecSimilar == InitSimilar /\ [][NextSimilar]_vars

\* ------------------------------------------------------------------------
\* The state machine of one call of chooseCanonicalName on a list of names.
\* ------------------------------------------------------------------------

\* The longest list of names.
MaxNames == 3

L_Backends == <<"B", "a", "c", "k", "e", "n", "d", "s">>

\* The names a list is drawn from: names of one length that differ in case,
\* in the first letter or in the Kelvin sign, and names of other lengths.
CanonicalNames ==
  { <<"a", "b">>, <<"A", "b">>, <<"B", "b">>, <<"K", "b">>, <<"k", "b">>,
    L_Kelvin, <<"a">>, <<"a", "-", "c">>, <<"a", "b", "c">>,
    L_Frontend, L_Backends }

InitCanonical ==
  /\ names \in UNION { [1..n -> CanonicalNames] : n \in 0..MaxNames }
  /\ canonical = <<>>
  /\ pc = "list"
  /\ NoTree
  /\ NoSimilar
  /\ NoClean
  /\ NoPrefix
  /\ NoView

\* chooseCanonicalName(names)
ChooseCanonicalName ==
  /\ pc = "list"
  /\ canonical' = chooseCanonicalName(names)
  /\ pc' = "chosen"
  /\ UNCHANGED <<treeVars, similarVars, names, cleanVars, prefixVars, viewVars>>

NextCanonical == ChooseCanonicalName

SpecCanonical == InitCanonical /\ [][NextCanonical]_vars

\* ------------------------------------------------------------------------
\* The state machine of one call of findLongestCommonPrefix on two keys.
\* ------------------------------------------------------------------------

\* The longest key that is built from KeyChars.
MaxKeyLen == 3

KeyChars == {"A", "b", " ", "-", "/"}

L_AiDashData == <<"A", "I", "-", "D", "a", "t", "a">>
L_AiDashDev == <<"A", "I", "-", "D", "e", "v">>
L_ApplePayApps == <<"A", "p", "p", "l", "e", " ", "P", "a", "y", " ", "A", "p", "p", "s">>
L_ApplePayBase == <<"A", "p", "p", "l", "e", " ", "P", "a", "y", " ", "B", "a", "s", "e">>

\* The keys of a node: cleaned labels and the names of the children of a
\* group, which are not empty, have no white space at their ends and no
\* two spaces in a row.
PrefixKeys ==
  { k \in UNION { [1..n -> KeyChars] : n \in 1..MaxKeyLen } :
      /\ k[1] # " "
      /\ k[Len(k)] # " "
      /\ \A i \in 1..(Len(k) - 1) : ~(k[i] = " " /\ k[i + 1] = " ") }
    \cup {L_DataApps, L_DataBase, L_FrontEnd, L_Frontier, L_Front, L_AiResearch,
          L_AiPlatform, L_AimlData, L_AimlInfra, L_AiDashData, L_AiDashDev,
          L_ApplePayApps, L_ApplePayBase}

InitPrefix ==
  /\ strings \in { pair \in PrefixKeys \X PrefixKeys : pair[1] # pair[2] }
  /\ longestCommonPrefix = <<>>
  /\ pc = "labels"
  /\ NoTree
  /\ NoSimilar
  /\ NoCanonical
  /\ NoClean
  /\ NoView

\* findLongestCommonPrefix(strings)
FindLongestCommonPrefix ==
  /\ pc = "labels"
  /\ longestCommonPrefix' = findLongestCommonPrefix(strings)
  /\ pc' = "prefix"
  /\ UNCHANGED <<treeVars, similarVars, canonicalVars, cleanVars, strings,
                 viewVars>>

NextPrefix == FindLongestCommonPrefix

SpecPrefix == InitPrefix /\ [][NextPrefix]_vars

\* ------------------------------------------------------------------------
\* The state machine of one call of cleanTeamName on a raw label.
\* ------------------------------------------------------------------------

\* The longest raw label that is built from RawChars.
MaxRawLen == 3

RawChars ==
  {"a", "B", "s", "3", " ", "'", ",", ")", "(", "\"", "U+2019", "U+F8FF"}

\* The code units that step 2 replaces, removes or takes for white space,
\* with a letter and a space.
UnicodeChars ==
  {"U+2018", "U+2019", "U+201C", "U+201D", "U+2013", "U+2014", "U+2026",
   "U+0009", "U+007F", "U+0085", "U+00A0", "U+E000", "U+F8FF", "U+FFFD",
   "a", " "}

L_Team == <<"T", "e", "a", "m">>
L_Testteam == <<"T", "e", "s", "t", "t", "e", "a", "m">>
L_LogoTeam == <<"U+F8FF", "T", "e", "a", "m">>
L_DataTEAM == <<"D", "a", "t", "a", " ", "T", "E", "A", "M">>
L_SalesTeamGroup ==
  <<"S", "a", "l", "e", "s", " ", "T", "e", "a", "m", " ", "G", "r", "o",
    "u", "p">>
L_SalesOrganization ==
  <<"S", "a", "l", "e", "s", " ", "O", "r", "g", "a", "n", "i", "z", "a",
    "t", "i", "o", "n">>
L_MarketingOrg ==
  <<"M", "a", "r", "k", "e", "t", "i", "n", "g", " ", "O", "r", "g">>
L_ItDepartment ==
  <<"I", "T", " ", "D", "e", "p", "a", "r", "t", "m", "e", "n", "t">>
L_CloudDivision ==
  <<"C", "l", "o", "u", "d", " ", "D", "i", "v", "i", "s", "i", "o", "n">>
L_IosTeam == <<"i", "O", "S", " ", "T", "e", "a", "m">>
L_MacosEngineering ==
  <<"m", "a", "c", "O", "S", " ", "E", "n", "g", "i", "n", "e", "e", "r",
    "i", "n", "g">>
L_TvosPlatform ==
  <<"t", "v", "O", "S", " ", "P", "l", "a", "t", "f", "o", "r", "m">>
L_WatchosDevelopment ==
  <<"w", "a", "t", "c", "h", "O", "S", " ", "D", "e", "v", "e", "l", "o",
    "p", "m", "e", "n", "t">>
L_IphoneSoftwareTeam ==
  <<"i", "P", "h", "o", "n", "e", " ", "S", "o", "f", "t", "w", "a", "r",
    "e", " ", "T", "e", "a", "m">>
L_GpuDesignTeam ==
  <<"G", "P", "U", " ", "D", "e", "s", "i", "g", "n", " ", "T", "e", "a",
    "m">>
L_ApplesTeam == <<"A", "p", "p", "l", "e", "'", "s", " ", "T", "e", "a", "m">>
L_GroupsTeam ==
  <<"A", "p", "p", "l", "e", " ", "G", "r", "o", "u", "p", "'", "s", " ",
    "T", "e", "a", "m">>
L_SegPossessive ==
  <<"S", "i", "l", "i", "c", "o", "n", " ", "E", "n", "g", "i", "n", "e",
    "e", "r", "i", "n", "g", " ", "G", "r", "o", "u", "p", " ", "(", "S",
    "E", "G", ")", "'", "s">>
L_TdgComma ==
  <<"T", "e", "c", "h", "n", "o", "l", "o", "g", "y", " ", "D", "e", "v",
    "e", "l", "o", "p", "m", "e", "n", "t", " ", "G", "r", "o", "u", "p",
    " ", "(", "T", "D", "G", ")", ",">>
L_RetailStores ==
  <<"G", "P", "U", " ", "(", "r", "e", "t", "a", "i", "l", ")", " ",
    "s", "t", "o", "r", "e", "s">>
L_Noisy ==
  <<" ", "U+201C", "D", "e", "v", "U+00A0", " ", "U+0009", "O", "p", "s",
    "U+2013", "U+E000", "X", "U+0085", "U+2026", "U+FFFD", "U+201D", " ">>
L_AI == <<"A", "I">>
L_3D == <<"3", "D">>
L_FrontEndTeam ==
  <<"F", "r", "o", "n", "t", "U+2013", "E", "n", "d", " ", "T", "e", "a",
    "m">>
L_ResearchDevelopment ==
  <<"R", "e", "s", "e", "a", "r", "c", "h", " ", "&", " ", "D", "e", "v",
    "e", "l", "o", "p", "m", "e", "n", "t", " ", "(", "R", "&", "D", ")">>

\* The raw labels: every string over RawChars up to MaxRawLen, and labels
\* with suffix words, acronyms in parentheses, possessives and tokens of
\* mixed case.
RawNames ==
  UNION { [1..n -> RawChars] : n \in 0..MaxRawLen } \cup
  UNION { [1..n -> UnicodeChars] : n \in 0..MaxRawLen } \cup
    {L_Team, L_Testteam, L_LogoTeam, L_DataTEAM, L_SalesTeamGroup,
     L_SalesOrganization, L_MarketingOrg, L_ItDepartment, L_CloudDivision,
     L_IosTeam, L_MacosEngineering, L_TvosPlatform, L_WatchosDevelopment,
     L_IphoneSoftwareTeam, L_GpuDesignTeam, L_ApplesTeam, L_GroupsTeam,
     L_SegPossessive, L_TdgComma, L_RetailStores, L_AI, L_3D, L_FrontEndTeam,
     L_ResearchDevelopment, L_EngTeam, L_EngGroup, L_EngComma, L_Noisy}

InitClean ==
  /\ rawName \in RawNames
  /\ cleanedName = <<>>
  /\ stages = <<>>
  /\ pc = "raw"
  /\ NoTree
  /\ NoSimilar
  /\ NoCanonical
  /\ NoPrefix
  /\ NoView

\* cleanTeamName(rawName)
CleanTeamName ==
  /\ pc = "raw"
  /\ stages' = CleanStages(rawName)
  /\ cleanedName' = stages'.r
  /\ pc' = "cleaned"
  /\ UNCHANGED <<treeVars, similarVars, canonicalVars, rawName, prefixVars,
                 viewVars>>

NextClean == CleanTeamName

SpecClean == InitClean /\ [][NextClean]_vars

\* ------------------------------------------------------------------------
\* OrgTreeViewer.tsx
\* ------------------------------------------------------------------------

\* A TreeNode is [id, name, children].  The id `${parentId}-${index}` is
\* written as the sequence of the indices on the way from the root: 'root'
\* is <<>>, 'root-0-1' is <<0, 1>>.  The org data is a tree in the order of
\* Object.entries.
RECURSIVE convertOrgToTreeNodes(_, _)
convertOrgToTreeNodes(data, parentId) ==
  [index \in 1..Len(data) |->
     With(Append(parentId, index - 1), LAMBDA id :
       [id |-> id, name |-> data[index][1],
        children |-> convertOrgToTreeNodes(data[index][2], id)])]

\* null in the place of a TreeNode.
NullNode == [null |-> TRUE]

\* The comparison without toLowerCase.
NodeMatchesCase(node, term) == includes(node.name, term)

\* node.name.toLowerCase().includes(searchTerm.toLowerCase())
NodeMatches(node, term) == includes(toLowerCase(node.name), toLowerCase(term))

\* The callback of map in filterTreeNodes.
RECURSIVE filterTreeNodes(_, _)
FilterNode(node, term) ==
  With(filterTreeNodes(node.children, term), LAMBDA filteredChildren :
    IF NodeMatches(node, term) \/ Len(filteredChildren) > 0
      THEN [node EXCEPT !.children = filteredChildren]
      ELSE NullNode)

filterTreeNodes(nodes, term) ==
  IF term = <<>> THEN nodes
  ELSE SelectSeq([i \in 1..Len(nodes) |-> FilterNode(nodes[i], term)],
                 LAMBDA node : node # NullNode)

\* traverse(node) without the test for children.
RECURSIVE traverse(_, _)
traverseAll(node, term) ==
  With([i \in 1..Len(node.children) |-> traverse(node.children[i], term)],
       LAMBDA below :
    IF (\E i \in 1..Len(below) : below[i].match) \/ NodeMatches(node, term)
      THEN [match |-> TRUE,
            ids |-> UNION {below[i].ids : i \in 1..Len(below)} \cup {node.id}]
      ELSE [match |-> FALSE, ids |-> {}])

\* traverse(node) of getExpandedNodeIds: what it returns (match) and the
\* ids it adds to expandedIds.
traverse(node, term) ==
  With([i \in 1..Len(node.children) |-> traverse(node.children[i], term)],
       LAMBDA below :
    With(\E i \in 1..Len(below) : below[i].match, LAMBDA hasMatchingDescendant :
    With(UNION {below[i].ids : i \in 1..Len(below)}, LAMBDA ids :
      IF hasMatchingDescendant \/ NodeMatches(node, term)
        THEN [match |-> TRUE,
              ids |-> IF Len(node.children) > 0 THEN ids \cup {node.id} ELSE ids]
        ELSE [match |-> FALSE, ids |-> ids])))

getExpandedNodeIds(nodes, term) ==
  IF term = <<>> THEN {}
  ELSE UNION {traverse(nodes[i], term).ids : i \in 1..Len(nodes)}

\* calculateNodeSize(node): the node and all the nodes below it.
RECURSIVE SumSizes(_, _)
RECURSIVE calculateNodeSize(_)
SumSizes(children, i) ==
  IF i > Len(children) THEN 0
  ELSE calculateNodeSize(children[i]) + SumSizes(children, i + 1)

calculateNodeSize(node) == 1 + SumSizes(node.children, 1)

\* The comparators handed to sorted.sort().
CompareNodes(a, b, by) ==
  IF by = "name" THEN localeCompare(a.name, b.name)
  ELSE calculateNodeSize(b) - calculateNodeSize(a)

\* Array.prototype.sort is stable: an element stays behind the elements
\* before it that the comparator does not put after it.
RECURSIVE InsertNode(_, _, _)
InsertNode(sorted, x, by) ==
  IF sorted = <<>> THEN <<x>>
  ELSE IF CompareNodes(x, Head(sorted), by) < 0 THEN <<x>> \o sorted
  ELSE <<Head(sorted)>> \o InsertNode(Tail(sorted), x, by)

RECURSIVE SortNodes(_, _)
SortNodes(nodes, by) ==
  IF nodes = <<>> THEN <<>>
  ELSE InsertNode(SortNodes(SubSeq(nodes, 1, Len(nodes) - 1), by),
                  nodes[Len(nodes)], by)

\* sortTreeNodes with sort() called on nodes itself, not on a copy.
RECURSIVE sortTreeNodes(_, _)
sortTreeNodesInPlace(nodes, by) ==
  IF by = "none" THEN [ret |-> nodes, arg |-> nodes]
  ELSE
    With(SortNodes(nodes, by), LAMBDA sorted :
    With([i \in 1..Len(sorted) |-> sortTreeNodes(sorted[i].children, by)],
         LAMBDA below :
      [ret |-> [i \in 1..Len(sorted) |->
                  [sorted[i] EXCEPT !.children = below[i].ret]],
       arg |-> [i \in 1..Len(sorted) |->
                  [sorted[i] EXCEPT !.children = below[i].arg]]]))

\* sortTreeNodes(nodes, sortBy): what it returns (ret) and what the array
\* nodes, which the caller keeps, holds after the call (arg).  sort() is
\* called on sorted, the copy [...nodes], and the children arrays are
\* handed to the calls below, which do the same; the nodes of the result
\* are new objects.
sortTreeNodes(nodes, by) ==
  IF by = "none" THEN [ret |-> nodes, arg |-> nodes]
  ELSE
    With(SortNodes(nodes, by), LAMBDA sorted :
    With([i \in 1..Len(sorted) |-> sortTreeNodes(sorted[i].children, by)],
         LAMBDA below :
    With([i \in 1..Len(nodes) |-> sortTreeNodes(nodes[i].children, by)],
         LAMBDA kept :
      [ret |-> [i \in 1..Len(sorted) |->
                  [sorted[i] EXCEPT !.children = below[i].ret]],
       arg |-> [i \in 1..Len(nodes) |->
                  [nodes[i] EXCEPT !.children = kept[i].arg]]])))

\* The memo of filteredAndSortedNodes for the stored tree tn, the debounced
\* term and the sort option: the local filtered, the value of the memo, and
\* the stored tree afterwards.  filterTreeNodes returns the stored array
\* itself for the empty term and new arrays of new objects otherwise.
Memo(tn, debounced, by) ==
  With(sortTreeNodes(filterTreeNodes(tn, debounced), by), LAMBDA s :
    [treeNodes |-> IF debounced = <<>> THEN s.arg ELSE tn,
     filtered |-> s.arg,
     filteredAndSortedNodes |-> s.ret])

\* The updater that leaves no other node expanded.
toggleExpandAlone(prev, id) == IF id \in prev THEN {} ELSE {id}

\* The updater of toggleExpand(id), applied to prev.
toggleExpand(prev, id) == IF id \in prev THEN prev \ {id} ELSE prev \cup {id}

\* The rows renderTreeNode(node, depth) puts on the screen, top to bottom.
RECURSIVE renderTreeNode(_, _, _)
RECURSIVE RenderNodes(_, _, _, _)
RenderNodes(nodes, i, depth, expanded) ==
  IF i > Len(nodes) THEN <<>>
  ELSE renderTreeNode(nodes[i], depth, expanded)
         \o RenderNodes(nodes, i + 1, depth, expanded)

renderTreeNode(node, depth, expanded) ==
  With(Len(node.children) > 0, LAMBDA hasChildren :
  With(node.id \in expanded, LAMBDA isExpanded :
    <<[id |-> node.id, name |-> node.name, hasChildren |-> hasChildren,
       isExpanded |-> isExpanded, depth |-> depth]>>
      \o (IF hasChildren /\ isExpanded
            THEN RenderNodes(node.children, 1, depth + 1, expanded)
            ELSE <<>>)))

\* The tree panel of the component: the 'no organizations found' message
\* without rows, or the rows of the filtered nodes.
Render(nodes, debounced, expanded) ==
  IF Len(nodes) = 0 /\ debounced # <<>> THEN <<>>
  ELSE RenderNodes(nodes, 1, 0, expanded)

\* useDebounce(value, 300): the value it returns once value has not
\* changed for the delay.
Debounced(value) == value

L_Engineering == <<"E", "n", "g", "i", "n", "e", "e", "r", "i", "n", "g">>
L_ReactTeam == <<"R", "e", "a", "c", "t", " ", "T", "e", "a", "m">>
L_VueTeam == <<"V", "u", "e", " ", "T", "e", "a", "m">>
L_Backend == <<"B", "a", "c", "k", "e", "n", "d">>
L_ApiTeam == <<"A", "P", "I", " ", "T", "e", "a", "m">>
L_UiTeam == <<"U", "I", " ", "T", "e", "a", "m">>
L_React == <<"R", "e", "a", "c", "t">>
L_team == <<"t", "e", "a", "m">>
L_ENGINEERING == <<"E", "N", "G", "I", "N", "E", "E", "R", "I", "N", "G">>
L_end == <<"e", "n", "d">>
L_zz == <<"z", "z">>

\* The org data of the tests and smaller ones: no node, a chain, a parent
\* named like its child, and siblings whose names differ in case only, the
\* largest last.
MockOrgData ==
  << <<L_Engineering,
       << <<L_Frontend, << <<L_ReactTeam, Leaf>>, <<L_VueTeam, Leaf>> >> >>,
          <<L_Backend, Node1(L_ApiTeam, Leaf)>> >> >>,
     <<L_Design, Node1(L_UiTeam, Leaf)>> >>

OrgDatas ==
  { MockOrgData, Leaf, Node1(L_Design, Node1(L_UiTeam, Leaf)),
    << <<L_Team, Node1(L_Team, Node1(L_Backend, Leaf))>>, <<L_Backend, Leaf>> >>,
    << <<L_Team, Leaf>>, <<L_Backend, Leaf>>,
       <<L_team, << <<L_VueTeam, Leaf>>, <<L_ApiTeam, Leaf>> >> >> >> }

\* What the user may have in the search box.
SearchTerms == {<<>>, L_React, L_team, L_ENGINEERING, L_Design, L_end, L_zz}

\* The options of the sort dropdown.
SortOptions == {"none", "name", "size"}

InitViewer ==
  /\ orgData \in OrgDatas
  /\ treeNodes = convertOrgToTreeNodes(orgData, <<>>)
  /\ expandedIds = {}
  /\ searchTerm = <<>>
  /\ sortBy = "none"
  /\ debouncedSearch = <<>>
  /\ filtered = Memo(treeNodes, <<>>, "none").filtered
  /\ filteredAndSortedNodes = Memo(treeNodes, <<>>, "none").filteredAndSortedNodes
  /\ rows = Render(filteredAndSortedNodes, <<>>, {})
  /\ event = [type |-> "mount", id |-> <<>>]
  /\ pc = "view"
  /\ NoTree
  /\ NoCall

\* onClick of a row on the screen: hasChildren && toggleExpand(node.id)
Click ==
  /\ pc = "view"
  /\ \E r \in 1..Len(rows) :
       /\ expandedIds' = IF rows[r].hasChildren
                           THEN toggleExpand(expandedIds, rows[r].id)
                           ELSE expandedIds
       /\ event' = [type |-> "click", id |-> rows[r].id]
  /\ rows' = Render(filteredAndSortedNodes, debouncedSearch, expandedIds')
  /\ UNCHANGED <<pc, treeVars, callVars, orgData, treeNodes, searchTerm,
                 sortBy, debouncedSearch, filtered, filteredAndSortedNodes>>

\* onChange of the search box: setSearchTerm(e.target.value)
ChangeSearch ==
  /\ pc = "view"
  /\ \E value \in SearchTerms \ {searchTerm} : searchTerm' = value
  /\ event' = [type |-> "change", id |-> <<>>]
  /\ UNCHANGED <<pc, treeVars, callVars, orgData, treeNodes, expandedIds,
                 sortBy, debouncedSearch, filtered, filteredAndSortedNodes,
                 rows>>

\* onChange of the sort dropdown: setSortBy(e.target.value); the memo of
\* the filtered and sorted nodes is recomputed.
ChangeSort ==
  /\ pc = "view"
  /\ \E value \in SortOptions \ {sortBy} : sortBy' = value
  /\ \E memo \in {Memo(treeNodes, debouncedSearch, sortBy')} :
       /\ treeNodes' = memo.treeNodes
       /\ filtered' = memo.filtered
       /\ filteredAndSortedNodes' = memo.filteredAndSortedNodes
  /\ rows' = Render(filteredAndSortedNodes', debouncedSearch, expandedIds)
  /\ event' = [type |-> "sort", id |-> <<>>]
  /\ UNCHANGED <<pc, treeVars, callVars, orgData, expandedIds, searchTerm,
                 debouncedSearch>>

\* The debounced value changes: the memo of the filtered nodes is
\* recomputed and the effect expands the nodes on the way to a match.
Debounce ==
  /\ pc = "view"
  /\ debouncedSearch # Debounced(searchTerm)
  /\ debouncedSearch' = Debounced(searchTerm)
  /\ \E memo \in {Memo(treeNodes, debouncedSearch', sortBy)} :
       /\ treeNodes' = memo.treeNodes
       /\ filtered' = memo.filtered
       /\ filteredAndSortedNodes' = memo.filteredAndSortedNodes
  /\ expandedIds' = IF debouncedSearch' # <<>>
                      THEN getExpandedNodeIds(treeNodes', debouncedSearch')
                      ELSE expandedIds
  /\ rows' = Render(filteredAndSortedNodes', debouncedSearch', expandedIds')
  /\ event' = [type |-> "debounce", id |-> <<>>]
  /\ UNCHANGED <<pc, treeVars, callVars, orgData, searchTerm, sortBy>>

\* clearSearch() without setExpandedIds(new Set()).
ClearSearchOnly ==
  /\ pc = "view"
  /\ \/ searchTerm # <<>>
     \/ Len(filteredAndSortedNodes) = 0 /\ debouncedSearch # <<>>
  /\ searchTerm' = <<>>
  /\ event' = [type |-> "clear", id |-> <<>>]
  /\ UNCHANGED <<pc, treeVars, callVars, orgData, treeNodes, expandedIds,
                 sortBy, debouncedSearch, filtered, filteredAndSortedNodes,
                 rows>>

\* clearSearch(), from the button in the search box (there while the box
\* is not empty) or from the link under 'no organizations found'.
ClearSearch ==
  /\ pc = "view"
  /\ \/ searchTerm # <<>>
     \/ Len(filteredAndSortedNodes) = 0 /\ debouncedSearch # <<>>
  /\ searchTerm' = <<>>
  /\ expandedIds' = {}
  /\ rows' = Render(filteredAndSortedNodes, debouncedSearch, expandedIds')
  /\ event' = [type |-> "clear", id |-> <<>>]
  /\ UNCHANGED <<pc, treeVars, callVars, orgData, treeNodes, sortBy,
                 debouncedSearch, filtered, filteredAndSortedNodes>>

NextViewer == Click \/ ChangeSearch \/ ChangeSort \/ Debounce \/ ClearSearch

SpecViewer == InitViewer /\ [][NextViewer]_vars

\* ------------------------------------------------------------------------
\* Properties
\* ------------------------------------------------------------------------

Range(s) == {s[i] : i \in 1..Len(s)}

\* A tree without the order of its keys.
RECURSIVE Unordered(_)
Unordered(t) == { <<t[i][1], Unordered(t[i][2])>> : i \in 1..Len(t) }

\* The keys of the node handed to groupByPrefix by the first call.
DedupKeys == Keys(heap[deduplicated])

\* C1: processOrgData terminates on every finite input tree: the first call
\* is over with a result, no call having exhausted the call stack.
C1_Terminates == pc = "done" => result # 0

\* C2: processOrgData is idempotent: the second call, on what the first
\* returned, returns the same tree up to the order of the keys.
C2_Idempotent ==
  pc = "again" =>
    /\ again # 0
    /\ Unordered(TreeAt(heap, again)) = Unordered(TreeAt(heap, result))

\* The prefixes of a key that end where a word ends (a space follows).
WordPrefixes(k) ==
  { SubSeq(k, 1, n) : n \in { m \in 1..(Len(k) - 2) : k[m + 1] = " " /\ k[m] # " " } }

\* The keys that continue the prefix p with a space.
MembersOf(keys, p) ==
  { k \in Range(keys) : Len(k) > Len(p) + 1 /\ SubSeq(k, 1, Len(p) + 1) = p \o <<" ">> }

\* The prefixes that three or more keys share up to a word boundary, each
\* the longest one of its members.
SharedPrefixes(keys) ==
  LET all == UNION { WordPrefixes(k) : k \in Range(keys) }
  IN  { p \in all :
          /\ Cardinality(MembersOf(keys, p)) >= 3
          /\ \A q \in all : Len(q) > Len(p) => MembersOf(keys, q) # MembersOf(keys, p) }

\* C3: whenever three or more keys of the node share a prefix that ends at
\* a word boundary, what groupByPrefix returns has the prefix as a key, and
\* below it every one of these keys with the prefix stripped.
C3_SharedPrefixGrouped ==
  pc = "done" /\ grouped # 0 =>
    \A p \in SharedPrefixes(DedupKeys) :
      /\ Has(heap[grouped], p)
      /\ \A k \in MembersOf(DedupKeys, p) :
           Has(heap[Get(heap[grouped], p)], SubSeq(k, Len(p) + 2, Len(k)))

\* Two keys with the same first three code units.
SharesStart(a, b) ==
  Len(a) >= 3 /\ Len(b) >= 3 /\ SubSeq(a, 1, 3) = SubSeq(b, 1, 3)

\* C4: groupByPrefix makes no parent from fewer than minGroupSize keys: a
\* node with fewer keys is returned as it is, a key that shares its start
\* with fewer than minGroupSize keys (itself included) stays a key of the
\* result, and every key of the result that the node has not is the start
\* of at least minGroupSize keys of the node.
C4_NoSmallGroup ==
  pc = "done" /\ grouped # 0 =>
    /\ Len(DedupKeys) < minGroupSize => grouped = deduplicated
    /\ \A k \in Range(DedupKeys) :
         Cardinality({m \in Range(DedupKeys) : SharesStart(k, m)}) < minGroupSize
           => Has(heap[grouped], k)
    /\ \A p \in Range(Keys(heap[grouped])) :
         p \notin Range(DedupKeys)
           => Cardinality({k \in Range(DedupKeys) : startsWith(k, p)}) >= minGroupSize

\* Exactly two keys share their start, a third key is unrelated, and the
\* call has returned.
C4_Witness ==
  /\ pc = "done"
  /\ grouped # 0
  /\ Len(DedupKeys) >= minGroupSize
  /\ \E k \in Range(DedupKeys) :
       Cardinality({m \in Range(DedupKeys) : SharesStart(k, m)}) = 2

\* The tree without every pair whose label cleanTeamName rejects, at every
\* level.
RECURSIVE WithoutRejected(_)
WithoutRejected(t) ==
  IF t = <<>> THEN <<>>
  ELSE (IF cleanTeamName(t[1][1]) = Null THEN <<>>
        ELSE << <<t[1][1], WithoutRejected(t[1][2])>> >>)
       \o WithoutRejected(Tail(t))

\* How a call ended: with a RangeError, or with the tree it returned.
Outcome(res) ==
  IF res.r = 0 THEN [thrown |-> TRUE, tree |-> <<>>]
  ELSE [thrown |-> FALSE, tree |-> TreeAt(res.h, res.r)]

\* processOrgData on a new object for the tree t.
ProcessTree(t) ==
  With(BuildTree(<<>>, t), LAMBDA b : Outcome(processOrgData(b.h, b.r, MaxStack)))

\* C5: a label that cleanTeamName rejects is dropped with its subtree: the
\* call on the input ends as the call on the input without its rejected
\* pairs does, with the same tree.
C5_RejectedDropped ==
  pc = "done" =>
    Outcome([h |-> heap, r |-> result]) = ProcessTree(WithoutRejected(input))

\* The input has a rejected label with children next to an accepted label,
\* and the call has returned.
C5_Witness ==
  /\ pc = "done"
  /\ result # 0
  /\ heap[result] # <<>>
  /\ \E i \in 1..Len(input) :
       cleanTeamName(input[i][1]) = Null /\ input[i][2] # <<>>

\* C6: processOrgData always returns a mapping and never null: the call
\* returns a reference to an object, which has no key when the input has
\* none, and every accepted label of the input is a key of cleanedNode with
\* an object for its children.
C6_ReturnsMapping ==
  pc = "done" =>
    /\ result # 0
    /\ result # NoNode
    /\ (input = <<>> => heap[result] = <<>>)
    /\ \A i \in 1..Len(input) :
         cleanTeamName(input[i][1]) # Null =>
           /\ Has(heap[cleanedNode], cleanTeamName(input[i][1]))
           /\ Get(heap[cleanedNode], cleanTeamName(input[i][1])) \in 1..Len(heap)

\* C7: processOrgData does not mutate its input: once the call is over, the
\* tree below the input object is the tree that was handed over.
C7_InputNotMutated == pc \in {"done", "again"} => TreeAt(heap, root) = input

\* The call has returned after merging the children of several labels: the
\* node has fewer keys after deduplication than the input has, and the
\* input has children.
C7_Witness ==
  /\ pc = "done"
  /\ result # 0
  /\ Len(heap[deduplicated]) < Len(input)
  /\ \A i \in 1..Len(input) : input[i][2] # <<>>

\* t[k] = sub on trees.
PutTree(t, k, sub) ==
  IF \E i \in 1..Len(t) : t[i][1] = k
    THEN [i \in 1..Len(t) |-> IF t[i][1] = k THEN <<k, sub>> ELSE t[i]]
    ELSE Append(t, <<k, sub>>)

\* The key-union of a sequence of trees: a key has the subtree of the last
\* tree that has the key, whole.
RECURSIVE UnionOf(_, _)
UnionOf(trees, acc) ==
  IF trees = <<>> THEN acc
  ELSE IF Head(trees) = <<>> THEN UnionOf(Tail(trees), acc)
  ELSE UnionOf(<<Tail(Head(trees))>> \o Tail(trees),
               PutTree(acc, Head(trees)[1][1], Head(trees)[1][2]))

\* The subtree of the tree t below its key k.
SubtreeOf(t, k) == t[CHOOSE i \in 1..Len(t) : t[i][1] = k][2]

\* The similarity classes of the keys: a seed, then the keys similar to
\* the seed that no earlier class holds, from the i-th key on.
RECURSIVE ClassesFrom(_, _, _)
ClassesFrom(keys, i, processed) ==
  IF i > Len(keys) THEN <<>>
  ELSE IF keys[i] \in processed THEN ClassesFrom(keys, i + 1, processed)
  ELSE With(<<keys[i]>> \o SelectSeq(keys, LAMBDA o :
              o # keys[i] /\ o \notin processed /\ areNamesSimilar(keys[i], o)),
            LAMBDA class :
         <<class>> \o ClassesFrom(keys, i + 1, processed \cup Range(class)))

\* deduplicateSimilarKeys on a new object for the tree t.
DedupeTree(t) ==
  With(BuildTree(<<>>, t), LAMBDA b :
    Outcome(deduplicateSimilarKeys(b.h, b.r, MaxStack)).tree)

\* The children of the members of a class of the tree t, in order.
ChildrenOf(t, class) == [j \in 1..Len(class) |-> SubtreeOf(t, class[j])]

\* C8: for every similarity class of the keys of cleanedNode, the node
\* under the canonical name is the recursive deduplication of the key-union
\* of the children of the members, a later member's child replacing an
\* earlier member's child of the same label whole.
C8_ClassChildrenUnion ==
  pc = "done" /\ deduplicated # 0 =>
    With(TreeAt(heap, cleanedNode), LAMBDA cleaned :
    With(ClassesFrom(Keys(heap[cleanedNode]), 1, {}), LAMBDA classes :
      \A c \in 1..Len(classes) :
        With(chooseCanonicalName(classes[c]), LAMBDA canonicalName :
          /\ Has(heap[deduplicated], canonicalName)
          /\ TreeAt(heap, Get(heap[deduplicated], canonicalName))
               = DedupeTree(UnionOf(ChildrenOf(cleaned, classes[c]), <<>>)))))

\* A class of two or more members, two of which have a child of the same
\* label with different subtrees.
C8_Witness ==
  /\ pc = "done"
  /\ deduplicated # 0
  /\ With(TreeAt(heap, cleanedNode), LAMBDA cleaned :
       \E a, b \in 1..Len(cleaned) :
         /\ a < b
         /\ areNamesSimilar(cleaned[a][1], cleaned[b][1])
         /\ Len(heap[deduplicated]) = 1
         /\ \E x \in 1..Len(cleaned[a][2]), y \in 1..Len(cleaned[b][2]) :
              /\ cleaned[a][2][x][1] = cleaned[b][2][y][1]
              /\ cleaned[a][2][x][2] # cleaned[b][2][y][2])

\* The pairs of the input whose label cleans to the label c, in order.
CleanedTo(c) == SelectSeq(input, LAMBDA e : cleanTeamName(e[1]) = c)

\* C9: the raw labels of the input that clean to one label give one key of
\* cleanedNode, whose children are the key-union of the processed children
\* of these labels in order, a later one overriding an earlier one on the
\* same child key.
C9_SameCleanedLabel ==
  pc = "done" /\ cleanedNode # 0 =>
    /\ Len(heap[cleanedNode])
         = Cardinality({cleanTeamName(input[i][1]) : i \in 1..Len(input)} \ {Null})
    /\ \A i \in 1..Len(input) :
         With(cleanTeamName(input[i][1]), LAMBDA c :
           c # Null =>
             /\ Has(heap[cleanedNode], c)
             /\ TreeAt(heap, Get(heap[cleanedNode], c))
                  = UnionOf([j \in 1..Len(CleanedTo(c)) |->
                               ProcessTree(CleanedTo(c)[j][2]).tree], <<>>))

\* Two raw labels clean to the same label and have different children.
C9_Witness ==
  /\ pc = "done"
  /\ cleanedNode # 0
  /\ \E i, j \in 1..Len(input) :
       /\ i < j
       /\ cleanTeamName(input[i][1]) # Null
       /\ cleanTeamName(input[i][1]) = cleanTeamName(input[j][1])
       /\ input[i][2] # <<>>
       /\ input[j][2] # <<>>
       /\ input[i][2] # input[j][2]

\* The letters a-z, the capitals A-Z and the digits 0-9.
SmallLetters ==
  <<"a", "b", "c", "d", "e", "f", "g", "h", "i", "j", "k", "l", "m",
    "n", "o", "p", "q", "r", "s", "t", "u", "v", "w", "x", "y", "z">>
CapitalLetters ==
  <<"A", "B", "C", "D", "E", "F", "G", "H", "I", "J", "K", "L", "M",
    "N", "O", "P", "Q", "R", "S", "T", "U", "V", "W", "X", "Y", "Z">>
DecimalDigits == {"0", "1", "2", "3", "4", "5", "6", "7", "8", "9"}

\* The lower case of a code unit.
LowerOf(c) ==
  IF \E i \in 1..26 : CapitalLetters[i] = c
    THEN SmallLetters[CHOOSE i \in 1..26 : CapitalLetters[i] = c]
  ELSE IF c = "U+212A" THEN "k"
  ELSE c

\* The normalized form: lowercased, then every code unit other than a-z and
\* 0-9 deleted.
NormalForm(s) ==
  SelectSeq([i \in 1..Len(s) |-> LowerOf(s[i])],
            LAMBDA c : c \in Range(SmallLetters) \cup DecimalDigits)

\* a is a substring of b.
OccursIn(a, b) ==
  \E i \in 1..(Len(b) - Len(a) + 1) : \A j \in 1..Len(a) : b[i + j - 1] = a[j]

\* The shorter and the longer length of two strings.
ShorterLen(a, b) == IF Len(a) <= Len(b) THEN Len(a) ELSE Len(b)
LongerLen(a, b) == IF Len(a) <= Len(b) THEN Len(b) ELSE Len(a)

\* C10: areNamesSimilar(a, b) is true exactly when the normalized forms are
\* equal, or one is a substring of the other and 10 * min(len) >= 7 *
\* max(len).
C10_SimilarExactly ==
  pc = "compared" =>
    With(NormalForm(name1), LAMBDA n1 :
    With(NormalForm(name2), LAMBDA n2 :
      similar <=>
        \/ n1 = n2
        \/ /\ OccursIn(n1, n2) \/ OccursIn(n2, n1)
           /\ 10 * ShorterLen(n1, n2) >= 7 * LongerLen(n1, n2)))

\* The call has returned true for two names whose normalized forms differ,
\* the shorter one having exactly 7/10 of the length of the longer one.
C10_Witness ==
  /\ pc = "compared"
  /\ similar
  /\ NormalForm(name1) # NormalForm(name2)
  /\ 10 * Len(NormalForm(name1)) = 7 * Len(NormalForm(name2))

\* C11: chooseCanonicalName on a non-empty list returns a member of the
\* list of maximal length, among the longest the smallest in the
\* lexicographic order of strings, and it returns the same name for every
\* rearrangement of the list.
C11_CanonicalChoice ==
  pc = "chosen" /\ names # <<>> =>
    /\ canonical \in Range(names)
    /\ \A n \in Range(names) : Len(n) <= Len(canonical)
    /\ \A n \in Range(names) : Len(n) = Len(canonical) => ~StrLess(n, canonical)
    /\ \A l \in Rearrangements(names) : chooseCanonicalName(l) = canonical

\* A letter or a digit.
Alphanumerics == Range(SmallLetters) \cup Range(CapitalLetters) \cup DecimalDigits

\* Reject test A on the label as it is after step 4, reject test B on the
\* label as it is after step 9.
RejectA ==
  /\ Len(stages.s4) <= 2
  /\ ~(Len(stages.s4) = 2 /\ \A i \in 1..2 : stages.s4[i] \in Alphanumerics)
RejectB == stages.s9 = <<>>

\* C12: cleanTeamName returns null exactly when, after step 4, the label
\* has at most two code units and is not two letters or digits, or when,
\* after step 9, it is empty; in every other case it returns a string.  A
\* single letter or digit is rejected and two letters or digits are kept.
C12_RejectExactly ==
  pc = "cleaned" =>
    /\ cleanedName = Null <=> RejectA \/ RejectB
    /\ cleanedName # Null => \A i \in 1..Len(cleanedName) : cleanedName[i] \in Chars
    /\ Len(rawName) = 1 /\ rawName[1] \in Alphanumerics => cleanedName = Null
    /\ Len(rawName) = 2 /\ (\A i \in 1..2 : rawName[i] \in Alphanumerics)
         => cleanedName # Null

\* A label that passes test A and is rejected by test B.
C12_Witness ==
  /\ pc = "cleaned"
  /\ Len(stages.s4) > 2
  /\ stages.s9 = <<>>
  /\ cleanedName = Null

\* The upper case of a code unit.
UpperOf(c) ==
  IF \E i \in 1..26 : SmallLetters[i] = c
    THEN CapitalLetters[CHOOSE i \in 1..26 : SmallLetters[i] = c]
    ELSE c

WhiteSpace == {" ", "U+0009", "U+00A0"}

\* The first and the last position of the white-space-delimited word of s
\* that holds position i.
WordStart(s, i) ==
  CHOOSE j \in 1..i :
    /\ \A k \in j..i : s[k] \notin WhiteSpace
    /\ j > 1 => s[j - 1] \in WhiteSpace
WordEnd(s, i) ==
  CHOOSE j \in i..Len(s) :
    /\ \A k \in i..j : s[k] \notin WhiteSpace
    /\ j < Len(s) => s[j + 1] \in WhiteSpace

\* No code unit of s from position a to position b is a small letter.
Uppercase(s, a, b) == \A k \in a..b : UpperOf(s[k]) = s[k]

\* t is s title-cased, the token of a word beginning at the position
\* TokenStart(s, i) of the word that holds position i: what precedes the
\* token is unchanged, a token without small letters is unchanged, and any
\* other token has its first code unit in upper case and the others in
\* lower case.
TitleCased(s, t, TokenStart(_, _)) ==
  /\ Len(t) = Len(s)
  /\ \A i \in 1..Len(s) :
       IF s[i] \in WhiteSpace \/ i < TokenStart(s, i)
            \/ Uppercase(s, TokenStart(s, i), WordEnd(s, i))
         THEN t[i] = s[i]
       ELSE IF i = TokenStart(s, i) THEN t[i] = UpperOf(s[i])
       ELSE t[i] = LowerOf(s[i])

WordChars == Alphanumerics \cup {"_"}

\* The position of the first letter, digit or underscore of the word that
\* holds position i, and the position after the word when it has none.
FirstWordChar(s, i) ==
  IF \E j \in WordStart(s, i)..WordEnd(s, i) : s[j] \in WordChars
    THEN CHOOSE j \in WordStart(s, i)..WordEnd(s, i) :
           /\ s[j] \in WordChars
           /\ \A k \in WordStart(s, i)..(j - 1) : s[k] \notin WordChars
    ELSE WordEnd(s, i) + 1

AppleOsNames ==
  { <<"i", "O", "S">>, <<"m", "a", "c", "O", "S">>, <<"t", "v", "O", "S">>,
    <<"w", "a", "t", "c", "h", "O", "S">> }

\* The white-space-delimited words of s.
WordsOf(s) ==
  { SubSeq(s, WordStart(s, i), WordEnd(s, i)) :
      i \in { j \in 1..Len(s) : s[j] \notin WhiteSpace } }

\* C14: a label with the word iOS, macOS, tvOS or watchOS is accepted and
\* the word is a word of the result, in the same case: 'iOS Team' gives
\* 'iOS' and 'macOS Engineering' gives 'macOS Engineering'.
C14_AppleOsPreserved ==
  pc = "cleaned" =>
    /\ \A w \in WordsOf(rawName) \cap AppleOsNames :
         cleanedName # Null /\ w \in WordsOf(cleanedName)
    /\ rawName = L_IosTeam => cleanedName = <<"i", "O", "S">>
    /\ rawName = L_MacosEngineering => cleanedName = L_MacosEngineering

\* The organizational suffix words.
SuffixWords ==
  { <<"t", "e", "a", "m">>, <<"g", "r", "o", "u", "p">>, <<"o", "r", "g">>,
    <<"o", "r", "g", "a", "n", "i", "z", "a", "t", "i", "o", "n">>,
    <<"d", "e", "p", "a", "r", "t", "m", "e", "n", "t">>,
    <<"d", "i", "v", "i", "s", "i", "o", "n">> }

\* s ends in the word w, in any case, after a white space.
EndsInWord(s, w) ==
  /\ Len(s) > Len(w)
  /\ s[Len(s) - Len(w)] \in WhiteSpace
  /\ \A k \in 1..Len(w) : LowerOf(s[Len(s) - Len(w) + k]) = w[k]

\* t is s without the white space at its two ends.
TrimmedTo(s, t) ==
  \E a \in 1..(Len(s) + 1) : \E b \in 0..Len(s) :
    /\ t = SubSeq(s, a, b)
    /\ \A k \in 1..(a - 1) : s[k] \in WhiteSpace
    /\ \A k \in (b + 1)..Len(s) : s[k] \in WhiteSpace
    /\ t # <<>> => t[1] \notin WhiteSpace /\ t[Len(t)] \notin WhiteSpace

L_SalesTeam == <<"S", "a", "l", "e", "s", " ", "T", "e", "a", "m">>

\* C15: step 7 of cleanTeamName removes one trailing suffix word with the
\* white space before it, in any case, and nothing when the label does not
\* end in a suffix word after a white space: 'Team' and 'Testteam' are kept
\* and 'Sales Team Group' gives 'Sales Team'.
C15_OneSuffixWord ==
  pc = "cleaned" =>
    /\ stages.s6b # Null =>
         IF \E w \in SuffixWords : EndsInWord(stages.s6b, w)
           THEN \E w \in SuffixWords :
                  /\ EndsInWord(stages.s6b, w)
                  /\ TrimmedTo(SubSeq(stages.s6b, 1, Len(stages.s6b) - Len(w) - 1),
                               stages.s7)
           ELSE stages.s7 = stages.s6b
    /\ rawName = L_Team => cleanedName = L_Team
    /\ rawName = L_Testteam => cleanedName = L_Testteam
    /\ rawName = L_SalesTeamGroup => cleanedName = L_SalesTeam

\* Two stacked suffix words, the last one removed.
C15_Witness ==
  /\ pc = "cleaned"
  /\ rawName = L_SalesTeamGroup
  /\ stages.s6b = L_SalesTeamGroup
  /\ stages.s7 = L_SalesTeam
  /\ cleanedName = L_SalesTeam

L_Aiml == <<"A", "I", "M", "L">>
L_InfrastructureTeams ==
  <<"I", "n", "f", "r", "a", "s", "t", "r", "u", "c", "t", "u", "r", "e",
    " ", "T", "e", "a", "m", "s">>
L_DataPlatform ==
  <<"D", "a", "t", "a", " ", "P", "l", "a", "t", "f", "o", "r", "m">>
L_EngineeringEfficiency ==
  <<"E", "n", "g", "i", "n", "e", "e", "r", "i", "n", "g", " ", "E", "f",
    "f", "i", "c", "i", "e", "n", "c", "y">>
L_SearchInfrastructure ==
  <<"S", "e", "a", "r", "c", "h", " ", "I", "n", "f", "r", "a", "s", "t",
    "r", "u", "c", "t", "u", "r", "e">>

\* The labels of the siblings at the top of a tree.
TopLabels(t) == [i \in 1..Len(t) |-> t[i][1]]

\* C16: processOrgData of the five siblings of the test, none with
\* children, returns the two keys 'AIML' and 'Design System' and no other:
\* 'AIML' with the four children 'Infrastructure Teams', 'Data Platform',
\* 'Engineering Efficiency', 'Search Infrastructure' and no other, none of
\* them with children, and 'Design System' without children.
C16_EndToEnd ==
  pc = "done" /\ Range(TopLabels(input)) = Range(ExampleLabels) =>
    /\ result # 0
    /\ Unordered(TreeAt(heap, result)) =
         { <<L_Aiml, { <<L_InfrastructureTeams, {}>>, <<L_DataPlatform, {}>>,
                       <<L_EngineeringEfficiency, {}>>,
                       <<L_SearchInfrastructure, {}>> }>>,
           <<L_DesignSystem, {}>> }

\* The call on the five siblings in the order of the test has returned.
C16_Witness ==
  /\ pc = "done"
  /\ TopLabels(input) = ExampleLabels
  /\ result # 0
  /\ Len(heap[result]) = 2

\* The nodes of a forest of TreeNodes, at every depth.
RECURSIVE NodesOf(_)
NodesOf(nodes) ==
  UNION { {nodes[i]} \cup NodesOf(nodes[i].children) : i \in 1..Len(nodes) }

IdsOf(nodes) == { n.id : n \in NodesOf(nodes) }

\* The node of a forest with a given id.
NodeAt(nodes, id) == CHOOSE n \in NodesOf(nodes) : n.id = id

\* The ids of the ancestors of the node with a given id.
AncestorsOf(id) == { SubSeq(id, 1, k) : k \in 1..(Len(id) - 1) }

\* The ids of the rows on the screen.
RowIds == { rows[r].id : r \in 1..Len(rows) }

\* C17: no node is expanded when the viewer is mounted; a click on a row
\* whose node has children (in the tree on the screen) adds the node to the
\* expanded set when it is not in it and removes it when it is, and leaves
\* every other node as it is; a click on a row whose node has no children
\* changes nothing; every row on the screen is of a node whose ancestors
\* are all expanded.
C17_ExpandCollapse ==
  /\ [](pc = "view" /\ event.type = "mount" => expandedIds = {})
  /\ [](pc = "view" => \A id \in RowIds : AncestorsOf(id) \subseteq expandedIds)
  /\ [][event'.type = "click" =>
          /\ event'.id \in RowIds
          /\ IF NodeAt(filteredAndSortedNodes, event'.id).children # <<>>
               THEN /\ event'.id \in expandedIds' <=> event'.id \notin expandedIds
                    /\ expandedIds' \ {event'.id} = expandedIds \ {event'.id}
               ELSE /\ expandedIds' = expandedIds
                    /\ rows' = rows
          /\ searchTerm' = searchTerm
          /\ debouncedSearch' = debouncedSearch
          /\ filteredAndSortedNodes' = filteredAndSortedNodes]_vars

\* A click has expanded a node below an expanded node, a third node being
\* expanded as well.
C17_Witness ==
  /\ pc = "view"
  /\ event.type = "click"
  /\ event.id \in expandedIds
  /\ Len(event.id) = 2
  /\ Cardinality(expandedIds) = 3
  /\ \E r \in 1..Len(rows) : rows[r].depth = 2

\* name contains term, the case of letters set aside.
ContainsTerm(nodeName, term) ==
  OccursIn([i \in 1..Len(term) |-> LowerOf(term[i])],
           [i \in 1..Len(nodeName) |-> LowerOf(nodeName[i])])

\* The nodes of the viewer's tree whose name contains the term or that
\* have a descendant whose name does.
OnWayToMatch(term) ==
  { n \in NodesOf(treeNodes) :
      \/ ContainsTerm(n.name, term)
      \/ \E d \in NodesOf(n.children) : ContainsTerm(d.name, term) }

\* The ids of a list of nodes, in order.
IdList(nodes) == [i \in 1..Len(nodes) |-> nodes[i].id]

\* C18: with an empty (debounced) term the filtered tree is the whole
\* tree; with any other term it holds exactly the nodes whose name contains
\* the term, case set aside, or that have a descendant whose name does,
\* each with its name, and the children of a kept node (and the nodes at
\* the top) are the kept ones among its children, in their order.
C18_SearchFilter ==
  pc = "view" =>
    IF debouncedSearch = <<>> THEN filtered = treeNodes
    ELSE
      With({ n.id : n \in OnWayToMatch(debouncedSearch) }, LAMBDA kept :
        /\ IdsOf(filtered) = kept
        /\ IdList(filtered)
             = SelectSeq(IdList(treeNodes), LAMBDA id : id \in kept)
        /\ \A n \in NodesOf(filtered) :
             /\ n.name = NodeAt(treeNodes, n.id).name
             /\ IdList(n.children)
                  = SelectSeq(IdList(NodeAt(treeNodes, n.id).children),
                              LAMBDA id : id \in kept))

\* A search that keeps a node for a descendant only, drops a sibling of a
\* kept node and drops a node at the top.
C18_Witness ==
  /\ pc = "view"
  /\ debouncedSearch # <<>>
  /\ \E n \in NodesOf(filtered) :
       /\ ~ContainsTerm(n.name, debouncedSearch)
       /\ Len(n.children) < Len(NodeAt(treeNodes, n.id).children)
  /\ 0 < Len(filtered)
  /\ Len(filtered) < Len(treeNodes)

SiblingLists(nodes) == {nodes} \cup { n.children : n \in NodesOf(nodes) }

\* The number of nodes of a forest.
Size(nodes) == Cardinality(IdsOf(nodes))

\* A forest without the order of its siblings: the names by id.
NamesById(nodes) == { <<n.id, n.name>> : n \in NodesOf(nodes) }

\* C21: with option 'name' every two neighbouring siblings of the tree on
\* the screen, at every level, are in ascending order of name (the order of
\* localeCompare); with option 'size' they are in descending order of
\* size, the size of a node being 1 plus the sizes of its children; with
\* option 'none' the tree on the screen is the filtered tree in the order
\* of the stored tree, whatever options were selected before; under every
\* option the tree on the screen has the nodes of the filtered tree, and
\* the stored tree stays the one made from the org data.
C21_Sorting ==
  pc = "view" =>
    /\ treeNodes = convertOrgToTreeNodes(orgData, <<>>)
    /\ NamesById(filteredAndSortedNodes) = NamesById(filtered)
    /\ \A n \in NodesOf(filteredAndSortedNodes) :
         IdsOf(n.children) = IdsOf(NodeAt(filtered, n.id).children)
    /\ \A l \in SiblingLists(filteredAndSortedNodes) :
         \A i \in 1..(Len(l) - 1) :
           CASE sortBy = "name" ->
                  ~WeightsLess(PrimaryWeight, l[i + 1].name, l[i].name)
                  /\ (WeightsLess(PrimaryWeight, l[i].name, l[i + 1].name)
                        \/ ~WeightsLess(TertiaryWeight, l[i + 1].name, l[i].name))
             [] sortBy = "size" ->
                  Size(<<l[i]>>) >= Size(<<l[i + 1]>>)
             [] sortBy = "none" ->
                  l[i].id[Len(l[i].id)] < l[i + 1].id[Len(l[i + 1].id)]
    /\ sortBy = "none" => filteredAndSortedNodes = filtered

\* A sort by size has moved the last sibling to the front, the tree being
\* filtered and the nodes below that sibling on the screen.
C21_Witness ==
  /\ pc = "view"
  /\ event.type = "sort"
  /\ sortBy = "size"
  /\ debouncedSearch # <<>>
  /\ Len(filtered) > 1
  /\ filteredAndSortedNodes[1].id = filtered[Len(filtered)].id
  /\ \E r \in 1..Len(rows) : rows[r].depth = 1

\* The node handed to groupByPrefix by the first call and what the call
\* returned, as trees.
DedupTree == TreeAt(heap, deduplicated)
GroupedTree == TreeAt(heap, grouped)

\* c is the end of k.
IsEndOf(c, k) == Len(c) <= Len(k) /\ SubSeq(k, Len(k) - Len(c) + 1, Len(k)) = c

\* The sibling e (a label and its subtree) is a key of the tree out, with
\* its subtree.
AtTop(e, out) ==
  \E j \in 1..Len(out) :
    out[j][1] = e[1] /\ Unordered(out[j][2]) = Unordered(e[2])

\* The sibling e is a child of a parent of the tree out that is the start
\* of its label, under its label or the rest of it, with its subtree.
BelowParent(e, out) ==
  \E j \in 1..Len(out) :
    /\ startsWith(e[1], out[j][1])
    /\ \E c \in 1..Len(out[j][2]) :
         /\ IsEndOf(out[j][2][c][1], e[1])
         /\ Unordered(out[j][2][c][2]) = Unordered(e[2])

\* C22: groupByPrefix loses no sibling: every key of the node is in what
\* the call returns with its subtree (the subtrees here have fewer than
\* minGroupSize keys, so grouping leaves them as they are), as a key or as
\* a child of a parent; and for every registered group the parent is a key
\* of what the call returns and has one child for each member.
C22_NoSiblingLost ==
  pc = "done" /\ grouped # 0 =>
    /\ \A i \in 1..Len(DedupTree) :
         AtTop(DedupTree[i], GroupedTree) \/ BelowParent(DedupTree[i], GroupedTree)
    /\ \A g \in Range(FindGroups(DedupKeys, minGroupSize).prefixGroups) :
         /\ Has(heap[grouped], trim(g.prefix))
         /\ Len(heap[Get(heap[grouped], trim(g.prefix))]) = Cardinality(Range(g.group))

\* C23: groupByPrefix places every sibling at most once: a key of the node
\* is a member of exactly one registered group or ungrouped, never both and
\* never a member of two groups, and is not at two places of what the call
\* returns.
C23_PlacedOnce ==
  pc = "done" /\ grouped # 0 =>
    With(FindGroups(DedupKeys, minGroupSize), LAMBDA st :
      /\ \A k \in Range(DedupKeys) :
           Cardinality({ g \in 1..Len(st.prefixGroups) :
                           k \in Range(st.prefixGroups[g].group) })
             + (IF k \in Range(st.ungrouped) THEN 1 ELSE 0) = 1
      /\ \A i \in 1..Len(DedupTree) :
           ~(AtTop(DedupTree[i], GroupedTree) /\ BelowParent(DedupTree[i], GroupedTree)))

\* The keys of the node handed to deduplicateSimilarKeys by the first call.
CleanedKeys == Keys(heap[cleanedNode])

\* The keys that no class before the c-th holds.
Unassigned(keys, classes, c) ==
  SelectSeq(keys, LAMBDA k : \A b \in 1..(c - 1) : k \notin Range(classes[b]))

\* classes is the partition of keys by one greedy pass in the order of
\* keys: the seed of a class is the first key that no earlier class holds,
\* and its members are the seed and the keys similar to the seed that no
\* earlier class holds; no key is left over.
IsGreedyPartition(classes, keys) ==
  /\ \A c \in 1..Len(classes) :
       With(Unassigned(keys, classes, c), LAMBDA open :
         /\ open # <<>>
         /\ Range(classes[c])
              = { k \in Range(open) : k = open[1] \/ areNamesSimilar(open[1], k) })
  /\ Unassigned(keys, classes, Len(classes) + 1) = <<>>

\* C24: the keys of what deduplicateSimilarKeys returns are one label of
\* each class of the greedy partition of the keys of the node: there is a
\* partition of the keys by one greedy pass in their order (every key in
\* exactly one class), and the output has exactly one key for each of its
\* classes, which is a label of the class.
C24_GreedyPartition ==
  pc = "done" /\ deduplicated # 0 =>
    With(ClassesFrom(CleanedKeys, 1, {}), LAMBDA classes :
      /\ IsGreedyPartition(classes, CleanedKeys)
      /\ \A k \in Range(CleanedKeys) :
           Cardinality({ c \in 1..Len(classes) : k \in Range(classes[c]) }) = 1
      /\ Len(heap[deduplicated]) = Len(classes)
      /\ \A c \in 1..Len(classes) :
           Cardinality(Range(DedupKeys) \cap Range(classes[c])) = 1)

\* The pass has made two classes, the first of two labels, and the seed of
\* the second is similar to a member of the first that is not its seed.
C24_Witness ==
  /\ pc = "done"
  /\ deduplicated # 0
  /\ With(ClassesFrom(CleanedKeys, 1, {}), LAMBDA classes :
       /\ Len(classes) = 2
       /\ Len(classes[1]) = 2
       /\ areNamesSimilar(classes[2][1], classes[1][2])
       /\ ~areNamesSimilar(classes[2][1], classes[1][1]))

\* C25: deduplicateSimilarKeys applied to what it returned changes
\* nothing: the second application returns the same tree up to the order
\* of the keys, and no two keys of what the first returned are similar.
C25_DedupeIdempotent ==
  pc = "done" /\ deduplicated # 0 =>
    /\ Unordered(DedupeTree(DedupTree)) = Unordered(DedupTree)
    /\ \A a, b \in Range(DedupKeys) : a # b => ~areNamesSimilar(a, b)

\* C26: cleanTeamName is idempotent on the labels it accepts: a label it
\* has returned is returned unchanged when it is cleaned again, neither
\* rejected nor shortened.
C26_CleanIdempotent ==
  pc = "cleaned" /\ cleanedName # Null => cleanTeamName(cleanedName) = cleanedName

\* The longest string that both a and b start with.
CommonStart(a, b) ==
  SubSeq(a, 1, CHOOSE n \in 0..ShorterLen(a, b) :
                 /\ SubSeq(a, 1, n) = SubSeq(b, 1, n)
                 /\ (n < ShorterLen(a, b) => a[n + 1] # b[n + 1]))

\* s without the white space at its ends.
Trimmed(s) ==
  IF \A i \in 1..Len(s) : s[i] \in WhiteSpace THEN <<>>
  ELSE SubSeq(s, CHOOSE i \in 1..Len(s) :
                   s[i] \notin WhiteSpace /\ \A j \in 1..(i - 1) : s[j] \in WhiteSpace,
                 CHOOSE i \in 1..Len(s) :
                   s[i] \notin WhiteSpace /\ \A j \in (i + 1)..Len(s) : s[j] \in WhiteSpace)

\* The positions of a string, after the first, that hold a space, '/' or
\* '-'.
InnerBoundaries(s) == { i \in 2..Len(s) : s[i] \in {" ", "/", "-"} }

\* The string up to and with its last inner boundary, trimmed; empty when
\* it has none.
TruncatedAtBoundary(s) ==
  IF InnerBoundaries(s) = {} THEN <<>>
  ELSE Trimmed(SubSeq(s, 1, CHOOSE i \in InnerBoundaries(s) :
                               \A j \in InnerBoundaries(s) : j <= i))

\* The character that follows the start c of the label l is a space.
SpaceFollows(c, l) == Len(l) > Len(c) /\ l[Len(c) + 1] = " "

\* C27: for two labels, findLongestCommonPrefix takes the trimmed common
\* start of the labels as candidate; a candidate of two or more characters
\* is returned when a space follows it in a label, or it ends in '/' or
\* '-', or it consists of capital letters, digits and '/' only; otherwise
\* the candidate truncated at its last inner space, '/' or '-' is returned
\* when it has two or more characters and such an inner boundary, and the
\* empty string in every other case.
C27_PairwisePrefix ==
  pc = "prefix" =>
    With(Trimmed(CommonStart(strings[1], strings[2])), LAMBDA candidate :
      longestCommonPrefix =
        IF Len(candidate) < 2 THEN <<>>
        ELSE IF \/ SpaceFollows(candidate, strings[1])
                \/ SpaceFollows(candidate, strings[2])
                \/ candidate[Len(candidate)] \in {"/", "-"}
                \/ \A i \in 1..Len(candidate) :
                     candidate[i] \in Range(CapitalLetters) \cup DecimalDigits \cup {"/"}
          THEN candidate
        ELSE TruncatedAtBoundary(candidate))

\* C28: a key other than the seed is in the seed's potential group only
\* when findLongestCommonPrefix of the two has at least 3 characters; and
\* when no two keys of the node share such a prefix, however many keys
\* there are, no parent is made: groupByPrefix returns the keys of the node
\* with their subtrees.
C28_PrefixOfThree ==
  pc = "done" /\ grouped # 0 =>
    /\ \A key \in Range(DedupKeys) :
         \A k \in Range(PotentialGroup(DedupKeys, key)) \ {key} :
           Len(findLongestCommonPrefix(<<key, k>>)) >= 3
    /\ (\A key \in Range(DedupKeys) : \A k \in Range(DedupKeys) \ {key} :
          Len(findLongestCommonPrefix(<<key, k>>)) < 3)
         => /\ FindGroups(DedupKeys, minGroupSize).prefixGroups = <<>>
            /\ Unordered(GroupedTree) = Unordered(DedupTree)

\* Four siblings that share the two-letter acronym 'AI' and nothing more
\* have been grouped: all four are keys of what groupByPrefix returned.
C28_Witness ==
  /\ pc = "done"
  /\ grouped # 0
  /\ Len(DedupKeys) = 4
  /\ \A key \in Range(DedupKeys) : \A k \in Range(DedupKeys) \ {key} :
       findLongestCommonPrefix(<<key, k>>) = <<"A", "I">>
  /\ Unordered(GroupedTree) = Unordered(DedupTree)

\* What is left of the label k after its first n characters, without the
\* white space around it.
Remainder(k, n) == Trimmed(SubSeq(k, n + 1, Len(k)))

\* The groups of the node handed to groupByPrefix by the first call that
\* get a parent.
BuiltGroups ==
  { g \in Range(FindGroups(DedupKeys, minGroupSize).prefixGroups) :
      Len(g.group) >= minGroupSize }

\* C29: for every group that gets a parent, the labels of the parent's
\* children are, for each member, the member's label without the prefix
\* and trimmed, or the member's whole label when fewer than 2 characters
\* are left.
C29_ChildLabels ==
  pc = "done" /\ grouped # 0 =>
    \A g \in BuiltGroups :
      /\ Has(heap[grouped], Trimmed(g.prefix))
      /\ Range(Keys(heap[Get(heap[grouped], Trimmed(g.prefix))])) =
           { IF Len(Remainder(k, Len(g.prefix))) < 2 THEN k
             ELSE Remainder(k, Len(g.prefix)) : k \in Range(g.group) }

\* The typographic quotes, dashes and ellipsis.
Typographic ==
  {"U+2018", "U+2019", "U+201C", "U+201D", "U+2013", "U+2014", "U+2026"}

\* The code points of the C0 and C1 controls, of the private-use area and
\* of U+FFF0 to U+FFFF.
Unprintable == (0..31) \cup (127..159) \cup (57344..63743) \cup (65520..65535)

\* C30: a label that cleanTeamName returns is not empty, has no white
\* space at its start or end and no two white-space characters in a row,
\* and holds no control character, no private-use code point, no code
\* point of U+FFF0 to U+FFFF and no typographic quote, dash or ellipsis.
C30_CleanedShape ==
  pc = "cleaned" /\ cleanedName # Null =>
    /\ cleanedName # <<>>
    /\ cleanedName[1] \notin WhiteSpace
    /\ cleanedName[Len(cleanedName)] \notin WhiteSpace
    /\ \A i \in 1..(Len(cleanedName) - 1) :
         ~(cleanedName[i] \in WhiteSpace /\ cleanedName[i + 1] \in WhiteSpace)
    /\ \A i \in 1..Len(cleanedName) :
         /\ Code[cleanedName[i]] \notin Unprintable
         /\ cleanedName[i] \notin Typographic

\* cleanTeamName has returned a label for a raw label that has white space
\* at both ends, two white-space characters in a row, typographic
\* characters, a control character, a private-use code point and U+FFFD.
C30_Witness ==
  /\ pc = "cleaned"
  /\ cleanedName # Null
  /\ rawName[1] \in WhiteSpace
  /\ rawName[Len(rawName)] \in WhiteSpace
  /\ \E i \in 1..(Len(rawName) - 1) :
       rawName[i] \in WhiteSpace /\ rawName[i + 1] \in WhiteSpace
  /\ \E i \in 1..Len(rawName) : rawName[i] \in Typographic
  /\ \E i \in 1..Len(rawName) : Code[rawName[i]] \in 127..159
  /\ \E i \in 1..Len(rawName) : Code[rawName[i]] \in 57344..63743
  /\ \E i \in 1..Len(rawName) : Code[rawName[i]] \in 65520..65535

====
